---- MODULE Spec2Model ----
(***************************************************************************)
(* A model of dmxparser: the byte source (src/src/read.rs), the binary     *)
(* decoder and attribute value codec (src/src/dmx.rs) and the serde        *)
(* materialization engine (src/src/serde.rs).                              *)
(*                                                                         *)
(* Bytes are integers 0..255, strings are sequences of bytes.  A call of   *)
(* the program ends in one of three ways, kept apart throughout:           *)
(*   "ok"    the call returned Ok(..)                                      *)
(*   "err"   the call returned Err(..) through its Result                  *)
(*   "panic" the call panicked (assert!, slice index, unwrap, split_at)    *)
(* f32 and u64 values are kept as their little-endian bytes (from_le_bytes *)
(* is a bijection on them); i32 and i8 values are decoded to integers.     *)
(***************************************************************************)
EXTENDS Integers, Sequences, FiniteSets, TLC

VARIABLES
    mode,      \* which Reader is in use: "slice" (Slice) or "stream" (BufRead)
    desc,      \* the description the input bytes were laid out from
    input,     \* the bytes handed to from_slice / from_reader
    pos,       \* the reader's cursor: number of bytes consumed so far
    pc,        \* position inside File::read, then "done"
    outcome,   \* "running", "ok", "err" or "panic"
    error,     \* the error (or panic) the call ended with, or None
    header,    \* File::read's local `header`
    prefix,    \* File::read's local `prefix`
    strings,   \* File::read's local `strings`
    n_elements, \* File::read's local `n_elements`
    headers,   \* File::read's local `headers`
    bodies,    \* File::read's local `bodies`
    result,    \* the File returned to the caller, or None
    mat,       \* the last from_file call: its target shape and what it returned
    last       \* the last byte-source operation and what it returned

vars == <<mode, desc, input, pos, pc, outcome, error, header, prefix, strings,
          n_elements, headers, bodies, result, mat, last>>

None == [none |-> TRUE]

Modes == {"slice", "stream"}

(***************************************************************************)
(* Results of a call.                                                      *)
(***************************************************************************)
Ok(v, p) == [st |-> "ok", val |-> v, pos |-> p]

Err(class, data) == [st |-> "err", err |-> [class |-> class, data |-> data, ctx |-> <<>>]]

Panic(what) == [st |-> "panic", err |-> [class |-> "panic", data |-> what, ctx |-> <<>>]]

\* anyhow's Context::with_context: wraps an Err, leaves Ok and a panic alone
with_context(r, c) ==
    IF r.st = "err"
    THEN [r EXCEPT !.err.ctx = Append(@, c)]
    ELSE r

Rest(buf, p) == SubSeq(buf, p + 1, Len(buf))

\* the `?` operator: a call that did not return Ok ends the caller with what
\* it returned (or with its panic); otherwise the caller goes on with K
Try(r, K(_)) == IF r.st # "ok" THEN r ELSE K(r)

(***************************************************************************)
(* read.rs: Reader for Slice                                               *)
(***************************************************************************)
\* size is a usize; a negative c_int cast `as usize` is 2^64 + size, which is
\* larger than any slice, so it is kept negative here and treated as too large.
TooLarge(buf, p, size) == size < 0 \/ size > Len(buf) - p

Slice_read_into(buf, p, n) ==
    IF TooLarge(buf, p, n)
    THEN Panic("split_at: mid > len")
    ELSE Ok(SubSeq(buf, p + 1, p + n), p + n)

Slice_read_bytes(buf, p, size) ==
    IF TooLarge(buf, p, size)
    THEN Panic("split_at: mid > len")
    ELSE Ok(SubSeq(buf, p + 1, p + size), p + size)

\* iter().position(|byte| *byte == predicate), counted from the cursor
RECURSIVE position(_, _, _)
position(buf, p, predicate) ==
    IF p >= Len(buf) THEN -1
    ELSE IF buf[p + 1] = predicate THEN p
    ELSE position(buf, p + 1, predicate)

\* a read_until that hands out the chunk and leaves the cursor on its last byte
Slice_read_until_short(buf, p, predicate) ==
    LET index == position(buf, p, predicate) IN
    IF index < 0
    THEN Err("DelimiterNotFound", predicate)
    ELSE Ok(SubSeq(buf, p + 1, index + 1), index)

Slice_read_until(buf, p, predicate) ==
    LET index == position(buf, p, predicate) IN
    IF index < 0
    THEN Err("DelimiterNotFound", predicate)
    ELSE Ok(SubSeq(buf, p + 1, index + 1), index + 1)

(***************************************************************************)
(* read.rs: Reader for R: BufRead                                          *)
(***************************************************************************)
BufRead_read_into(buf, p, n) ==
    IF n > Len(buf) - p
    THEN Err("Io", "UnexpectedEof")
    ELSE Ok(SubSeq(buf, p + 1, p + n), p + n)

\* vec![0; size] comes first: a size above isize::MAX panics with "capacity
\* overflow" before anything is read
BufRead_read_bytes(buf, p, size) ==
    IF size < 0
    THEN Panic("capacity overflow")
    ELSE IF size > Len(buf) - p
    THEN Err("Io", "UnexpectedEof")
    ELSE Ok(SubSeq(buf, p + 1, p + size), p + size)

\* std's BufRead::read_until: reads up to and including the delimiter, or up
\* to EOF when the delimiter never comes, and returns Ok either way
BufRead_read_until(buf, p, predicate) ==
    LET index == position(buf, p, predicate) IN
    IF index < 0
    THEN Ok(Rest(buf, p), Len(buf))
    ELSE Ok(SubSeq(buf, p + 1, index + 1), index + 1)

(***************************************************************************)
(* The Reader trait, dispatched on the variant in use.                     *)
(***************************************************************************)
read_into(m, buf, p, n) ==
    IF m = "slice" THEN Slice_read_into(buf, p, n) ELSE BufRead_read_into(buf, p, n)

read_bytes(m, buf, p, size) ==
    IF m = "slice" THEN Slice_read_bytes(buf, p, size) ELSE BufRead_read_bytes(buf, p, size)

read_until(m, buf, p, predicate) ==
    IF m = "slice" THEN Slice_read_until(buf, p, predicate)
    ELSE BufRead_read_until(buf, p, predicate)

(***************************************************************************)
(* read.rs: impl_from_bytes! and the two string readers                    *)
(***************************************************************************)
\* from_le_bytes, for the widths that are decoded to integers
u8_from_le_bytes(b) == b[1]

i8_from_le_bytes(b) == IF b[1] >= 128 THEN b[1] - 256 ELSE b[1]

i32_from_le_bytes(b) ==
    (b[1] + 256 * b[2] + 65536 * b[3])
        + 16777216 * (IF b[4] >= 128 THEN b[4] - 256 ELSE b[4])

size_of(T) ==
    CASE T = "u8" -> 1
      [] T = "c_char" -> 1
      [] T = "c_int" -> 4
      [] T = "c_float" -> 4
      [] T = "u64" -> 8

from_le_bytes(T, b) ==
    CASE T = "u8" -> u8_from_le_bytes(b)
      [] T = "c_char" -> i8_from_le_bytes(b)
      [] T = "c_int" -> i32_from_le_bytes(b)
      [] T = "c_float" -> b
      [] T = "u64" -> b

\* impl_from_bytes!: read_into a buffer of size_of::<T>() bytes, then from_le_bytes
impl_from_bytes(T, m, buf, p) ==
    Try(read_into(m, buf, p, size_of(T)), LAMBDA r :
    Ok(from_le_bytes(T, r.val), r.pos))

IsCont(b, i) == i <= Len(b) /\ b[i] \in 128..191

\* core::str::from_utf8's validation
RECURSIVE utf8_valid(_, _)
utf8_valid(b, i) ==
    IF i > Len(b) THEN TRUE
    ELSE LET c == b[i] IN
        CASE c < 128 -> utf8_valid(b, i + 1)
          [] c \in 194..223 -> IsCont(b, i + 1) /\ utf8_valid(b, i + 2)
          [] c = 224 ->
                /\ i + 1 <= Len(b) /\ b[i + 1] \in 160..191
                /\ IsCont(b, i + 2) /\ utf8_valid(b, i + 3)
          [] c \in (225..236) \cup (238..239) ->
                IsCont(b, i + 1) /\ IsCont(b, i + 2) /\ utf8_valid(b, i + 3)
          [] c = 237 ->
                /\ i + 1 <= Len(b) /\ b[i + 1] \in 128..159
                /\ IsCont(b, i + 2) /\ utf8_valid(b, i + 3)
          [] c = 240 ->
                /\ i + 1 <= Len(b) /\ b[i + 1] \in 144..191
                /\ IsCont(b, i + 2) /\ IsCont(b, i + 3) /\ utf8_valid(b, i + 4)
          [] c \in 241..243 ->
                /\ IsCont(b, i + 1) /\ IsCont(b, i + 2) /\ IsCont(b, i + 3)
                /\ utf8_valid(b, i + 4)
          [] c = 244 ->
                /\ i + 1 <= Len(b) /\ b[i + 1] \in 128..143
                /\ IsCont(b, i + 2) /\ IsCont(b, i + 3) /\ utf8_valid(b, i + 4)
          [] OTHER -> FALSE

from_utf8(bytes, p) ==
    IF utf8_valid(bytes, 1)
    THEN Ok(bytes, p)
    ELSE with_context(Err("Utf8", bytes), [tag |-> "Could not read utf-8 string from bytes"])

\* Readable for &'a str: read_until(0)?, drop the last byte, from_utf8
str_read(m, buf, p) ==
    Try(read_until(m, buf, p, 0), LAMBDA r :
    from_utf8(SubSeq(r.val, 1, Len(r.val) - 1), r.pos))

\* a String read that keeps the terminator it read
String_read_keep_terminator(m, buf, p) ==
    Try(read_until(m, buf, p, 0), LAMBDA r :
    from_utf8(r.val, r.pos))

\* Readable for String: read_until(0)?, vec.pop().unwrap(), String::from_utf8
String_read(m, buf, p) ==
    Try(read_until(m, buf, p, 0), LAMBDA r :
    IF Len(r.val) = 0 THEN Panic("called Option::unwrap() on a None value")
    ELSE from_utf8(SubSeq(r.val, 1, Len(r.val) - 1), r.pos))

\* R::String::read: &str for Slice, String for BufRead
RString_read(m, buf, p) ==
    IF m = "slice" THEN str_read(m, buf, p) ELSE String_read(m, buf, p)

(***************************************************************************)
(* dmx.rs: AttributeType                                                   *)
(***************************************************************************)
ScalarTypes ==
    <<"Element", "Int", "Float", "Bool", "String", "Binary", "Time", "Color",
      "Vector2", "Vector3", "Vector4", "Qangle", "Quaternion", "Vmatrix",
      "Uint64", "Uint8">>

ArrayTypes ==
    <<"ElementArray", "IntArray", "FloatArray", "BoolArray", "StringArray",
      "BinaryArray", "TimeArray", "ColorArray", "Vector2Array", "Vector3Array",
      "Vector4Array", "QangleArray", "QuaternionArray", "VmatrixArray",
      "Uint64Array">>

\* enum AttributeType: the 31 variants
AttributeType == {ScalarTypes[i] : i \in 1..16} \cup {ArrayTypes[i] : i \in 1..15}

\* the match of AttributeType::read; "" stands for the `value => bail!` arm
\* a tag table without its array arms
AttributeType_match_scalars(value) ==
    IF value \in 1..16 THEN ScalarTypes[value] ELSE ""

AttributeType_match(value) ==
    CASE value = 1 -> "Element"
      [] value = 2 -> "Int"
      [] value = 3 -> "Float"
      [] value = 4 -> "Bool"
      [] value = 5 -> "String"
      [] value = 6 -> "Binary"
      [] value = 7 -> "Time"
      [] value = 8 -> "Color"
      [] value = 9 -> "Vector2"
      [] value = 10 -> "Vector3"
      [] value = 11 -> "Vector4"
      [] value = 12 -> "Qangle"
      [] value = 13 -> "Quaternion"
      [] value = 14 -> "Vmatrix"
      [] value = 15 -> "Uint64"
      [] value = 16 -> "Uint8"
      [] value = 33 -> "ElementArray"
      [] value = 34 -> "IntArray"
      [] value = 35 -> "FloatArray"
      [] value = 36 -> "BoolArray"
      [] value = 37 -> "StringArray"
      [] value = 38 -> "BinaryArray"
      [] value = 39 -> "TimeArray"
      [] value = 40 -> "ColorArray"
      [] value = 41 -> "Vector2Array"
      [] value = 42 -> "Vector3Array"
      [] value = 43 -> "Vector4Array"
      [] value = 44 -> "QangleArray"
      [] value = 45 -> "QuaternionArray"
      [] value = 46 -> "VmatrixArray"
      [] value = 47 -> "Uint64Array"
      [] OTHER -> ""

\* a tag read that takes every byte it does not know for an Int
AttributeType_read_lenient(m, buf, p) ==
    Try(impl_from_bytes("u8", m, buf, p), LAMBDA r :
    IF r.val \in 1..16 THEN Ok(ScalarTypes[r.val], r.pos)
    ELSE IF r.val \in 33..47 THEN Ok(ArrayTypes[r.val - 32], r.pos)
    ELSE Ok("Int", r.pos))

AttributeType_read(m, buf, p) ==
    Try(impl_from_bytes("u8", m, buf, p), LAMBDA r :
    IF AttributeType_match(r.val) = ""
    THEN Err("unimplemented AttributeType", r.val)
    ELSE Ok(AttributeType_match(r.val), r.pos))

\* AttributeType::name, the names as bytes
AttributeType_name(t) ==
    CASE t = "Element" -> <<69, 108, 101, 109, 101, 110, 116>>
      [] t = "Int" -> <<73, 110, 116>>
      [] t = "Float" -> <<70, 108, 111, 97, 116>>
      [] t = "Bool" -> <<66, 111, 111, 108>>
      [] t = "String" -> <<83, 116, 114, 105, 110, 103>>
      [] t = "Binary" -> <<66, 105, 110, 97, 114, 121>>
      [] t = "Time" -> <<84, 105, 109, 101>>
      [] t = "Color" -> <<67, 111, 108, 111, 114>>
      [] t = "Vector2" -> <<86, 101, 99, 116, 111, 114, 50>>
      [] t = "Vector3" -> <<86, 101, 99, 116, 111, 114, 51>>
      [] t = "Vector4" -> <<86, 101, 99, 116, 111, 114, 52>>
      [] t = "Qangle" -> <<81, 97, 110, 103, 108, 101>>
      [] t = "Quaternion" -> <<81, 117, 97, 116, 101, 114, 110, 105, 111, 110>>
      [] t = "Vmatrix" -> <<86, 109, 97, 116, 114, 105, 120>>
      [] t = "Uint64" -> <<85, 105, 110, 116, 54, 52>>
      [] t = "Uint8" -> <<85, 105, 110, 116, 56>>
      [] t = "ElementArray" -> <<69, 108, 101, 109, 101, 110, 116, 65, 114, 114, 97, 121>>
      [] t = "IntArray" -> <<73, 110, 116, 65, 114, 114, 97, 121>>
      [] t = "FloatArray" -> <<70, 108, 111, 97, 116, 65, 114, 114, 97, 121>>
      [] t = "BoolArray" -> <<66, 111, 111, 108, 65, 114, 114, 97, 121>>
      [] t = "StringArray" -> <<83, 116, 114, 105, 110, 103, 65, 114, 114, 97, 121>>
      [] t = "BinaryArray" -> <<66, 105, 110, 97, 114, 121, 65, 114, 114, 97, 121>>
      [] t = "TimeArray" -> <<84, 105, 109, 101, 65, 114, 114, 97, 121>>
      [] t = "ColorArray" -> <<67, 111, 108, 111, 114, 65, 114, 114, 97, 121>>
      [] t = "Vector2Array" -> <<86, 101, 99, 116, 111, 114, 50, 65, 114, 114, 97, 121>>
      [] t = "Vector3Array" -> <<86, 101, 99, 116, 111, 114, 51, 65, 114, 114, 97, 121>>
      [] t = "Vector4Array" -> <<86, 101, 99, 116, 111, 114, 52, 65, 114, 114, 97, 121>>
      [] t = "QangleArray" -> <<81, 97, 110, 103, 108, 101, 65, 114, 114, 97, 121>>
      [] t = "QuaternionArray" -> <<81, 117, 97, 116, 101, 114, 110, 105, 111, 110, 65, 114, 114, 97, 121>>
      [] t = "VmatrixArray" -> <<86, 109, 97, 116, 114, 105, 120, 65, 114, 114, 97, 121>>
      [] t = "Uint64Array" -> <<85, 105, 110, 116, 54, 52, 65, 114, 114, 97, 121>>

(***************************************************************************)
(* dmx.rs: StringRef, Time, Color, the vectors, Vmatrix                    *)
(***************************************************************************)
\* (0..size).map(|_| T::read(reader)).collect::<Result<_>>() for a primitive T:
\* reads one after the other and stops at the first failure
RECURSIVE collect_prim(_, _, _, _, _, _)
collect_prim(T, m, buf, p, size, acc) ==
    IF size <= 0 THEN Ok(acc, p)
    ELSE Try(impl_from_bytes(T, m, buf, p), LAMBDA r :
         collect_prim(T, m, buf, r.pos, size - 1, Append(acc, r.val)))

StringRef_read(m, buf, p) == impl_from_bytes("c_int", m, buf, p)

\* StringRef::index: self.0.try_into().ok(); -1 stands for Option::None
StringRef_index(ref) == IF ref >= 0 THEN ref ELSE -1

Time_read(m, buf, p) ==
    Try(impl_from_bytes("c_int", m, buf, p), LAMBDA r :
    Ok([millis |-> r.val], r.pos))

Color_read(m, buf, p) ==
    Try(collect_prim("c_char", m, buf, p, 4, <<>>), LAMBDA r :
    Ok([r |-> r.val[1], g |-> r.val[2], b |-> r.val[3], a |-> r.val[4]], r.pos))

Vector2_read(m, buf, p) ==
    Try(collect_prim("c_float", m, buf, p, 2, <<>>), LAMBDA r :
    Ok([x |-> r.val[1], y |-> r.val[2]], r.pos))

Vector3_read(m, buf, p) ==
    Try(collect_prim("c_float", m, buf, p, 3, <<>>), LAMBDA r :
    Ok([x |-> r.val[1], y |-> r.val[2], z |-> r.val[3]], r.pos))

Vector4_read(m, buf, p) ==
    Try(collect_prim("c_float", m, buf, p, 4, <<>>), LAMBDA r :
    Ok([x |-> r.val[1], y |-> r.val[2], z |-> r.val[3], w |-> r.val[4]], r.pos))

Qangle_read(m, buf, p) ==
    Try(collect_prim("c_float", m, buf, p, 3, <<>>), LAMBDA r :
    Ok([pitch |-> r.val[1], yaw |-> r.val[2], roll |-> r.val[3]], r.pos))

Quaternion_read(m, buf, p) ==
    Try(collect_prim("c_float", m, buf, p, 4, <<>>), LAMBDA r :
    Ok([x |-> r.val[1], y |-> r.val[2], z |-> r.val[3], w |-> r.val[4]], r.pos))

Vmatrix_read(m, buf, p) == collect_prim("c_float", m, buf, p, 16, <<>>)

(***************************************************************************)
(* dmx.rs: AttributeValue                                                  *)
(***************************************************************************)
\* `u8::read(reader)? != 0`
Bool_read(m, buf, p) ==
    Try(impl_from_bytes("u8", m, buf, p), LAMBDA r :
    Ok(r.val # 0, r.pos))

\* a Binary arm that takes a negative length for no bytes at all
Binary_read_clamped(m, buf, p) ==
    Try(impl_from_bytes("c_int", m, buf, p), LAMBDA size :
    read_bytes(m, buf, size.pos, IF size.val < 0 THEN 0 ELSE size.val))

\* `let size = c_int::read(reader)?; reader.read_bytes(size as usize)`
Binary_read(m, buf, p) ==
    Try(impl_from_bytes("c_int", m, buf, p), LAMBDA size :
    read_bytes(m, buf, size.pos, size.val))

\* T::read for the item types of the scalar and array arms.  S is the type
\* parameter of the String variant: "String" (R::String, a NUL-terminated run)
\* in the prefix block, "StringRef" (an index) in element bodies.
Readable(T, m, buf, p) ==
    CASE T = "c_int" -> impl_from_bytes("c_int", m, buf, p)
      [] T = "c_float" -> impl_from_bytes("c_float", m, buf, p)
      [] T = "u64" -> impl_from_bytes("u64", m, buf, p)
      [] T = "u8" -> impl_from_bytes("u8", m, buf, p)
      [] T = "bool" -> Bool_read(m, buf, p)
      [] T = "String" -> RString_read(m, buf, p)
      [] T = "StringRef" -> StringRef_read(m, buf, p)
      [] T = "Binary" -> Binary_read(m, buf, p)
      [] T = "Time" -> Time_read(m, buf, p)
      [] T = "Color" -> Color_read(m, buf, p)
      [] T = "Vector2" -> Vector2_read(m, buf, p)
      [] T = "Vector3" -> Vector3_read(m, buf, p)
      [] T = "Vector4" -> Vector4_read(m, buf, p)
      [] T = "Qangle" -> Qangle_read(m, buf, p)
      [] T = "Quaternion" -> Quaternion_read(m, buf, p)
      [] T = "Vmatrix" -> Vmatrix_read(m, buf, p)

\* a collect that gathers the items last first
RECURSIVE collect_reversed(_, _, _, _, _, _)
collect_reversed(T, m, buf, p, size, acc) ==
    IF size <= 0 THEN Ok(acc, p)
    ELSE Try(Readable(T, m, buf, p), LAMBDA r :
         collect_reversed(T, m, buf, r.pos, size - 1, <<r.val>> \o acc))

\* (0..size).map(|_| T::read(reader)).collect::<Result<_>>()
RECURSIVE collect(_, _, _, _, _, _)
collect(T, m, buf, p, size, acc) ==
    IF size <= 0 THEN Ok(acc, p)
    ELSE Try(Readable(T, m, buf, p), LAMBDA r :
         collect(T, m, buf, r.pos, size - 1, Append(acc, r.val)))

\* an array arm that refuses a negative size
read_array_unsigned(T, m, buf, p) ==
    Try(impl_from_bytes("c_int", m, buf, p), LAMBDA size :
    IF size.val < 0 THEN Err("negative size", size.val)
    ELSE collect(T, m, buf, size.pos, size.val, <<>>))

\* an array arm: `let size = c_int::read(reader)?;` then the collect
read_array(T, m, buf, p) ==
    Try(impl_from_bytes("c_int", m, buf, p), LAMBDA size :
    collect(T, m, buf, size.pos, size.val, <<>>))

\* arms in which a String is read in place whatever the third type parameter is
ItemType_inline(t, S) ==
    CASE t = "Element" -> "c_int"
      [] t = "Int" -> "c_int"
      [] t = "Float" -> "c_float"
      [] t = "Bool" -> "bool"
      [] t = "String" -> "String"
      [] t = "Binary" -> "Binary"
      [] t = "Uint64" -> "u64"
      [] t = "Uint8" -> "u8"
      [] t \in {"Time", "Color", "Vector2", "Vector3", "Vector4", "Qangle",
                "Quaternion", "Vmatrix"} -> t
      [] t = "ElementArray" -> "c_int"
      [] t = "IntArray" -> "c_int"
      [] t = "FloatArray" -> "c_float"
      [] t = "BoolArray" -> "bool"
      [] t = "StringArray" -> "String"
      [] t = "BinaryArray" -> "Binary"
      [] t = "TimeArray" -> "Time"
      [] t = "ColorArray" -> "Color"
      [] t = "Vector2Array" -> "Vector2"
      [] t = "Vector3Array" -> "Vector3"
      [] t = "Vector4Array" -> "Vector4"
      [] t = "QangleArray" -> "Qangle"
      [] t = "QuaternionArray" -> "Quaternion"
      [] t = "VmatrixArray" -> "Vmatrix"
      [] t = "Uint64Array" -> "u64"

\* the item type each arm of AttributeValue::read reads
ItemType(t, S) ==
    CASE t = "Element" -> "c_int"
      [] t = "Int" -> "c_int"
      [] t = "Float" -> "c_float"
      [] t = "Bool" -> "bool"
      [] t = "String" -> S
      [] t = "Binary" -> "Binary"
      [] t = "Time" -> "Time"
      [] t = "Color" -> "Color"
      [] t = "Vector2" -> "Vector2"
      [] t = "Vector3" -> "Vector3"
      [] t = "Vector4" -> "Vector4"
      [] t = "Qangle" -> "Qangle"
      [] t = "Quaternion" -> "Quaternion"
      [] t = "Vmatrix" -> "Vmatrix"
      [] t = "Uint64" -> "u64"
      [] t = "Uint8" -> "u8"
      [] t = "ElementArray" -> "c_int"
      [] t = "IntArray" -> "c_int"
      [] t = "FloatArray" -> "c_float"
      [] t = "BoolArray" -> "bool"
      [] t = "StringArray" -> "String"
      [] t = "BinaryArray" -> "Binary"
      [] t = "TimeArray" -> "Time"
      [] t = "ColorArray" -> "Color"
      [] t = "Vector2Array" -> "Vector2"
      [] t = "Vector3Array" -> "Vector3"
      [] t = "Vector4Array" -> "Vector4"
      [] t = "QangleArray" -> "Qangle"
      [] t = "QuaternionArray" -> "Quaternion"
      [] t = "VmatrixArray" -> "Vmatrix"
      [] t = "Uint64Array" -> "u64"

IsArrayType(t) == \E i \in 1..Len(ArrayTypes) : ArrayTypes[i] = t

\* the AttributeValue variant each arm of AttributeValue::read constructs
AttributeValue_variant(t) == t

\* AttributeValue::read: the tag, then the arm it selects
AttributeValue_read(S, m, buf, p) ==
    Try(AttributeType_read(m, buf, p), LAMBDA t :
    Try(IF IsArrayType(t.val)
                  THEN read_array(ItemType(t.val, S), m, buf, t.pos)
                  ELSE Readable(ItemType(t.val, S), m, buf, t.pos), LAMBDA r :
    Ok([variant |-> AttributeValue_variant(t.val), v |-> r.val], r.pos)))

\* a kind() whose Uint8 and Uint64 arms are crossed
AttributeValue_kind_crossed(value) ==
    CASE value.variant = "Uint8" -> "Uint64"
      [] value.variant = "Uint64" -> "Uint8"
      [] OTHER -> value.variant

\* AttributeValue::kind
AttributeValue_kind(value) ==
    CASE value.variant = "Element" -> "Element"
      [] value.variant = "Int" -> "Int"
      [] value.variant = "Float" -> "Float"
      [] value.variant = "Bool" -> "Bool"
      [] value.variant = "String" -> "String"
      [] value.variant = "Binary" -> "Binary"
      [] value.variant = "Time" -> "Time"
      [] value.variant = "Color" -> "Color"
      [] value.variant = "Vector2" -> "Vector2"
      [] value.variant = "Vector3" -> "Vector3"
      [] value.variant = "Vector4" -> "Vector4"
      [] value.variant = "Qangle" -> "Qangle"
      [] value.variant = "Quaternion" -> "Quaternion"
      [] value.variant = "Vmatrix" -> "Vmatrix"
      [] value.variant = "Uint64" -> "Uint64"
      [] value.variant = "Uint8" -> "Uint8"
      [] value.variant = "ElementArray" -> "ElementArray"
      [] value.variant = "IntArray" -> "IntArray"
      [] value.variant = "FloatArray" -> "FloatArray"
      [] value.variant = "BoolArray" -> "BoolArray"
      [] value.variant = "StringArray" -> "StringArray"
      [] value.variant = "BinaryArray" -> "BinaryArray"
      [] value.variant = "TimeArray" -> "TimeArray"
      [] value.variant = "ColorArray" -> "ColorArray"
      [] value.variant = "Vector2Array" -> "Vector2Array"
      [] value.variant = "Vector3Array" -> "Vector3Array"
      [] value.variant = "Vector4Array" -> "Vector4Array"
      [] value.variant = "QangleArray" -> "QangleArray"
      [] value.variant = "QuaternionArray" -> "QuaternionArray"
      [] value.variant = "VmatrixArray" -> "VmatrixArray"
      [] value.variant = "Uint64Array" -> "Uint64Array"

(***************************************************************************)
(* dmx.rs: FileHeader                                                      *)
(***************************************************************************)
\* "<!-- dmx encoding "
OPEN_TOKEN ==
    <<60, 33, 45, 45, 32, 100, 109, 120, 32, 101, 110, 99, 111, 100, 105, 110, 103, 32>>

\* " format "
FORMAT_TOKEN == <<32, 102, 111, 114, 109, 97, 116, 32>>

\* " -->\n"
CLOSE_TOKEN == <<32, 45, 45, 62, 10>>

\* the separator ' ' of split_at and the " " of trim_start
SPACE == <<32>>

\* "binary", the name File::read asserts
BINARY == <<98, 105, 110, 97, 114, 121>>

starts_with(value, head) ==
    Len(head) <= Len(value) /\ SubSeq(value, 1, Len(head)) = head

\* str::find(char) for an ASCII char: the byte index of its first occurrence, or -1
RECURSIVE find(_, _, _)
find(value, sep, i) ==
    IF i > Len(value) THEN -1
    ELSE IF value[i] = sep THEN i - 1
    ELSE find(value, sep, i + 1)

\* ReaderString::split(index): returns the head and leaves the tail in place
ReaderString_split(value, index) ==
    [st |-> "ok", head |-> SubSeq(value, 1, index),
     rest |-> SubSeq(value, index + 1, Len(value))]

\* fn trim_start: assert!(value.starts_with(head)); value.split(head.len());
trim_start(value, head) ==
    IF starts_with(value, head)
    THEN ReaderString_split(value, Len(head))
    ELSE Panic("assertion failed: value.starts_with(head)")

\* fn split_at: value.find(sep).ok_or_else(..)?, then value.split(index)
split_at(value, sep) ==
    LET index == find(value, sep[1], 1) IN
    IF index < 0
    THEN Err("could not find separator", sep)
    ELSE ReaderString_split(value, index)

IsDigit(c) == c \in 48..57

\* the digits of i32::from_str, accumulated on the side of the sign so that
\* i32::MIN parses; acc is the value so far, negative for a negative number
RECURSIVE parse_digits(_, _, _, _)
parse_digits(src, i, neg, acc) ==
    IF i > Len(src) THEN [st |-> "ok", val |-> acc]
    ELSE IF ~IsDigit(src[i]) THEN Err("ParseIntError", "InvalidDigit")
    ELSE LET d == src[i] - 48 IN
         IF neg
         THEN IF acc < -214748364 \/ (acc = -214748364 /\ d > 8)
              THEN Err("ParseIntError", "NegOverflow")
              ELSE parse_digits(src, i + 1, neg, acc * 10 - d)
         ELSE IF acc > 214748364 \/ (acc = 214748364 /\ d > 7)
              THEN Err("ParseIntError", "PosOverflow")
              ELSE parse_digits(src, i + 1, neg, acc * 10 + d)

\* a parse that knows no sign
parse_c_int_unsigned(src) ==
    IF Len(src) = 0 THEN Err("ParseIntError", "Empty")
    ELSE parse_digits(src, 1, FALSE, 0)

\* str::parse::<c_int>()
parse_c_int(src) ==
    IF Len(src) = 0 THEN Err("ParseIntError", "Empty")
    ELSE IF src[1] \in {43, 45}
    THEN IF Len(src) = 1 THEN Err("ParseIntError", "InvalidDigit")
         ELSE parse_digits(src, 2, src[1] = 45, 0)
    ELSE parse_digits(src, 1, FALSE, 0)

FileHeader_read(m, buf, p) ==
    Try(RString_read(m, buf, p), LAMBDA value :
    Try(trim_start(value.val, OPEN_TOKEN), LAMBDA t1 :
    Try(split_at(t1.rest, SPACE), LAMBDA encoding_name :
    Try(trim_start(encoding_name.rest, SPACE), LAMBDA t2 :
    Try(split_at(t2.rest, SPACE), LAMBDA s2 :
    Try(parse_c_int(s2.head), LAMBDA encoding_version :
    Try(trim_start(s2.rest, FORMAT_TOKEN), LAMBDA t3 :
    Try(split_at(t3.rest, SPACE), LAMBDA format_name :
    Try(trim_start(format_name.rest, SPACE), LAMBDA t4 :
    Try(split_at(t4.rest, SPACE), LAMBDA s4 :
    Try(parse_c_int(s4.head), LAMBDA format_version :
    Try(trim_start(s4.rest, CLOSE_TOKEN), LAMBDA t5 :
    Ok([encoding_name |-> encoding_name.head,
        encoding_version |-> encoding_version.val,
        format_name |-> format_name.head,
        format_version |-> format_version.val], value.pos)))))))))))))

(***************************************************************************)
(* dmx.rs: Header, Attribute, Body                                         *)
(***************************************************************************)
Header_read(m, buf, p) ==
    Try(StringRef_read(m, buf, p), LAMBDA type_ :
    Try(StringRef_read(m, buf, type_.pos), LAMBDA name :
    Try(read_into(m, buf, name.pos, 16), LAMBDA guid :
    Ok([type_ |-> type_.val, name |-> name.val, guid |-> guid.val], guid.pos))))

\* struct AttributeError(StringRef, Option<String>), used as an error context
AttributeError(name, resolved) ==
    [tag |-> "AttributeError", ref |-> name, resolved |-> resolved]

Attribute_read(m, buf, p) ==
    Try(StringRef_read(m, buf, p), LAMBDA name :
    Try(with_context(AttributeValue_read("StringRef", m, buf, name.pos),
                              AttributeError(name.val, None)), LAMBDA value :
    Ok([name |-> name.val, value |-> value.val], value.pos)))

RECURSIVE collect_attributes(_, _, _, _, _)
collect_attributes(m, buf, p, n, acc) ==
    IF n <= 0 THEN Ok(acc, p)
    ELSE Try(Attribute_read(m, buf, p), LAMBDA r :
         collect_attributes(m, buf, r.pos, n - 1, Append(acc, r.val)))

Body_read(m, buf, p) ==
    Try(impl_from_bytes("c_int", m, buf, p), LAMBDA n_attributes :
    Try(collect_attributes(m, buf, n_attributes.pos, n_attributes.val, <<>>), LAMBDA attributes :
    Ok([attributes |-> attributes.val], attributes.pos)))

(***************************************************************************)
(* dmx.rs: the sections of File::read                                      *)
(***************************************************************************)
\* one (name, value) pair of the prefix block
prefix_pair(m, buf, p) ==
    Try(RString_read(m, buf, p), LAMBDA name :
    Try(with_context(AttributeValue_read("String", m, buf, name.pos),
                     [tag |-> "Failed to read attribute", name |-> name.val]), LAMBDA value :
    Ok(<<name.val, value.val>>, value.pos)))

RECURSIVE collect_prefix(_, _, _, _, _)
collect_prefix(m, buf, p, n, acc) ==
    IF n <= 0 THEN Ok(acc, p)
    ELSE Try(prefix_pair(m, buf, p), LAMBDA r :
         collect_prefix(m, buf, r.pos, n - 1, Append(acc, r.val)))

read_prefix(m, buf, p) ==
    Try(impl_from_bytes("c_int", m, buf, p), LAMBDA n_prefix :
    collect_prefix(m, buf, n_prefix.pos, n_prefix.val, <<>>))

\* a sequence without the items that occurred earlier in it
RECURSIVE Dedup(_)
Dedup(items) ==
    IF Len(items) = 0 THEN <<>>
    ELSE IF \E j \in 1..(Len(items) - 1) : items[j] = items[Len(items)]
    THEN Dedup(SubSeq(items, 1, Len(items) - 1))
    ELSE Append(Dedup(SubSeq(items, 1, Len(items) - 1)), items[Len(items)])

\* a string table that keeps the first occurrence of each string only
read_strings_dedup(m, buf, p) ==
    Try(impl_from_bytes("c_int", m, buf, p), LAMBDA n_strings :
    Try(collect("String", m, buf, n_strings.pos, n_strings.val, <<>>), LAMBDA r :
    Ok(Dedup(r.val), r.pos)))

read_strings(m, buf, p) ==
    Try(impl_from_bytes("c_int", m, buf, p), LAMBDA n_strings :
    collect("String", m, buf, n_strings.pos, n_strings.val, <<>>))

RECURSIVE collect_headers(_, _, _, _, _)
collect_headers(m, buf, p, n, acc) ==
    IF n <= 0 THEN Ok(acc, p)
    ELSE Try(Header_read(m, buf, p), LAMBDA r :
         collect_headers(m, buf, r.pos, n - 1, Append(acc, r.val)))

\* `let n_elements = c_int::read(reader)?;` and the headers; n_elements is
\* kept beside the headers because the bodies loop uses it again
read_headers(m, buf, p) ==
    Try(impl_from_bytes("c_int", m, buf, p), LAMBDA count :
    Try(collect_headers(m, buf, count.pos, count.val, <<>>), LAMBDA hs :
    Ok([n_elements |-> count.val, headers |-> hs.val], hs.pos)))

RECURSIVE collect_bodies(_, _, _, _, _)
collect_bodies(m, buf, p, n, acc) ==
    IF n <= 0 THEN Ok(acc, p)
    ELSE Try(Body_read(m, buf, p), LAMBDA r :
         collect_bodies(m, buf, r.pos, n - 1, Append(acc, r.val)))

HasAttributeError(err) ==
    \E i \in 1..Len(err.ctx) : err.ctx[i].tag = "AttributeError"

\* the map_err closure of the bodies: when the error carries an
\* AttributeError, its name is looked up with strings[(err.0).0 as usize],
\* a plain index that panics outside the table
bodies_map_err(r, strs) ==
    IF r.st # "err" \/ ~HasAttributeError(r.err) THEN r
    ELSE LET i == CHOOSE i \in 1..Len(r.err.ctx) : r.err.ctx[i].tag = "AttributeError"
             ref == r.err.ctx[i].ref
         IN IF ref < 0 \/ ref >= Len(strs)
            THEN Panic("index out of bounds")
            ELSE [r EXCEPT !.err.ctx[i].resolved = strs[ref + 1]]

\* bodies collected last to first
read_bodies_reversed(m, buf, p, count, strs) ==
    Try(bodies_map_err(collect_bodies(m, buf, p, count, <<>>), strs), LAMBDA r :
    [r EXCEPT !.val = [i \in 1..Len(r.val) |-> r.val[Len(r.val) + 1 - i]]])

read_bodies(m, buf, p, count, strs) ==
    bodies_map_err(collect_bodies(m, buf, p, count, <<>>), strs)

(***************************************************************************)
(* The inputs.  An input is laid out from a description of its records,    *)
(* following the binary layout of the format; the decoder above never      *)
(* sees the description, only the bytes.                                   *)
(***************************************************************************)
\* the four little-endian bytes of a 32-bit two's complement integer
le32(n) ==
    <<n % 256, (n \div 256) % 256, (n \div 65536) % 256, (n \div 16777216) % 256>>

RECURSIVE Flatten(_)
Flatten(seqs) ==
    IF Len(seqs) = 0 THEN <<>> ELSE Head(seqs) \o Flatten(Tail(seqs))

cstring(bytes) == bytes \o <<0>>

LayoutPrefix(a) == cstring(a.name) \o <<a.tag>> \o a.payload

LayoutHeader(h) == le32(h.type_) \o le32(h.name) \o h.guid

LayoutAttribute(a) == le32(a.name) \o <<a.tag>> \o a.payload

LayoutBody(b) ==
    le32(b.n_attributes) \o Flatten([i \in 1..Len(b.attrs) |-> LayoutAttribute(b.attrs[i])])

Layout(d) ==
    d.line \o d.pad
      \o le32(d.n_prefix) \o Flatten([i \in 1..Len(d.prefix) |-> LayoutPrefix(d.prefix[i])])
      \o le32(d.n_strings) \o Flatten([i \in 1..Len(d.strings) |-> cstring(d.strings[i])])
      \o le32(d.n_elements) \o Flatten([i \in 1..Len(d.heads) |-> LayoutHeader(d.heads[i])])
      \o Flatten([i \in 1..Len(d.bods) |-> LayoutBody(d.bods[i])])
      \o d.trailer

\* the bytes handed to the decoder: the layout, less `cut` bytes at its end
InputOf(d) == SubSeq(Layout(d), 1, Len(Layout(d)) - d.cut)

(***************************************************************************)
(* serde.rs: the materialization engine.                                   *)
(*                                                                         *)
(* A deserializer is a record: [d |-> "Element", index], [d |-> "Value",   *)
(* value], [d |-> "String", index] for this crate's three, and for the     *)
(* ones of serde::de::value [d |-> "Str", v], [d |-> "Buffer", v],         *)
(* [d |-> "Prim", t, v], [d |-> "Fields", entries], [d |-> "Seq", items].  *)
(* Asked for a shape, a deserializer answers with one call on the target's *)
(* visitor, here an event [e |-> "none"], [e |-> "some", d], [e |-> "map", *)
(* access], [e |-> "seq", items], [e |-> "enum", d], [e |-> "str", v],     *)
(* [e |-> "bytes", v], a primitive [e |-> "i32", v], or a panic.           *)
(***************************************************************************)
MOk(v) == [st |-> "ok", val |-> v]

Event(e, v) == [e |-> e, v |-> v]

EvNone == [e |-> "none"]

ElementDeserializer(index) == [d |-> "Element", index |-> index]

StringDeserializer(index) == [d |-> "String", index |-> index]

ValueDeserializer(value) == [d |-> "Value", value |-> value]

\* StringWrapper(..).into_deserializer(): BorrowedStrDeserializer or the owned one
StringWrapper(v) == [d |-> "Str", v |-> v]

\* BufferWrapper(..).into_deserializer()
BufferWrapper(v) == [d |-> "Buffer", v |-> v]

Prim(t, v) == [d |-> "Prim", t |-> t, v |-> v]

\* ElementWrapper { .. }.into_deserializer()
ElementWrapper(index) == ElementDeserializer(index)

\* an ElementDeserializer that looks at the sign of its index under an optional
\* request only, and indexes with it under the other requests
ElementDeserializer_visit_unchecked(D, method) ==
    IF D.index < 0
    THEN IF method = "option" THEN EvNone
         ELSE [e |-> "panic", v |-> "index out of bounds"]
    ELSE CASE method = "any" -> [e |-> "map", access |-> [a |-> "Attributes", index |-> D.index]]
           [] method = "enum" -> [e |-> "enum", d |-> D]
           [] method = "option" -> [e |-> "some", d |-> D]

\* ElementDeserializer: deserialize_any, deserialize_enum, deserialize_option.
\* try_into::<usize>() fails exactly for a negative index.
ElementDeserializer_visit(D, method) ==
    IF D.index < 0 THEN EvNone
    ELSE CASE method = "any" -> [e |-> "map", access |-> [a |-> "Attributes", index |-> D.index]]
           [] method = "enum" -> [e |-> "enum", d |-> D]
           [] method = "option" -> [e |-> "some", d |-> D]

\* StringDeserializer: deserialize_any (everything but option) and deserialize_option
StringDeserializer_visit(doc, D, method) ==
    IF StringRef_index(D.index) < 0 THEN EvNone
    ELSE IF method = "option" THEN [e |-> "some", d |-> D]
    ELSE IF D.index >= Len(doc.strings) THEN [e |-> "panic", v |-> "index out of bounds"]
    ELSE Event("str", doc.strings[D.index + 1])

\* BorrowedBytesDeserializer for &[u8], SeqDeserializer over the bytes for Vec<u8>
BufferWrapper_visit(m, D) ==
    IF m = "slice" THEN Event("bytes", D.v)
    ELSE [e |-> "seq", items |-> [i \in 1..Len(D.v) |-> Prim("u8", D.v[i])]]

\* the IntoDeserializer impls for &Time, &Color, the vectors: a MapDeserializer
\* over (field name, value) pairs
Fields(names, T, value) ==
    [e |-> "map",
     access |-> [a |-> "Fields",
                 entries |-> [i \in 1..Len(names) |-> <<names[i], Prim(T, value[names[i]])>>]]]

Struct_visit(variant, value) ==
    CASE variant = "Time" -> Fields(<<"millis">>, "i32", value)
      [] variant = "Color" -> Fields(<<"r", "g", "b", "a">>, "i8", value)
      [] variant = "Vector2" -> Fields(<<"x", "y">>, "f32", value)
      [] variant = "Vector3" -> Fields(<<"x", "y", "z">>, "f32", value)
      [] variant = "Vector4" -> Fields(<<"x", "y", "z", "w">>, "f32", value)
      [] variant = "Qangle" -> Fields(<<"pitch", "yaw", "roll">>, "f32", value)
      [] variant = "Quaternion" -> Fields(<<"x", "y", "z", "w">>, "f32", value)

StructDeserializer(variant, value) == [d |-> "Struct", variant |-> variant, value |-> value]

SeqEvent(items) == [e |-> "seq", items |-> items]

PrimI32(x) == Prim("i32", x)

PrimF32(x) == Prim("f32", x)

PrimBool(x) == Prim("bool", x)

PrimU64(x) == Prim("u64", x)

\* ValueDeserializer::deserialize_any
ValueDeserializer_any(doc, m, value) ==
    LET t == value.variant
        v == value.v
    IN CASE t = "Element" -> ElementDeserializer_visit(ElementDeserializer(v), "any")
         [] t = "Bool" -> Event("bool", v)
         [] t = "Uint8" -> Event("u8", v)
         [] t = "Int" -> Event("i32", v)
         [] t = "Uint64" -> Event("u64", v)
         [] t = "Float" -> Event("f32", v)
         [] t = "String" ->
                IF StringRef_index(v) < 0 THEN EvNone
                ELSE IF v >= Len(doc.strings)
                THEN [e |-> "panic", v |-> "index out of bounds"]
                ELSE Event("str", doc.strings[v + 1])
         [] t = "Binary" -> BufferWrapper_visit(m, BufferWrapper(v))
         [] t \in {"Time", "Color", "Vector2", "Vector3", "Vector4", "Qangle", "Quaternion"} ->
                Struct_visit(t, v)
         [] t = "Vmatrix" -> SeqEvent([i \in 1..Len(v) |-> PrimF32(v[i])])
         [] t = "ElementArray" -> SeqEvent([i \in 1..Len(v) |-> ElementWrapper(v[i])])
         [] t = "IntArray" -> SeqEvent([i \in 1..Len(v) |-> PrimI32(v[i])])
         [] t = "FloatArray" -> SeqEvent([i \in 1..Len(v) |-> PrimF32(v[i])])
         [] t = "BoolArray" -> SeqEvent([i \in 1..Len(v) |-> PrimBool(v[i])])
         [] t = "StringArray" -> SeqEvent([i \in 1..Len(v) |-> StringWrapper(v[i])])
         [] t = "BinaryArray" -> SeqEvent([i \in 1..Len(v) |-> BufferWrapper(v[i])])
         [] t = "TimeArray" -> SeqEvent([i \in 1..Len(v) |-> StructDeserializer("Time", v[i])])
         [] t = "ColorArray" -> SeqEvent([i \in 1..Len(v) |-> StructDeserializer("Color", v[i])])
         [] t = "Vector2Array" -> SeqEvent([i \in 1..Len(v) |-> StructDeserializer("Vector2", v[i])])
         [] t = "Vector3Array" -> SeqEvent([i \in 1..Len(v) |-> StructDeserializer("Vector3", v[i])])
         [] t = "Vector4Array" -> SeqEvent([i \in 1..Len(v) |-> StructDeserializer("Vector4", v[i])])
         [] t = "QangleArray" -> SeqEvent([i \in 1..Len(v) |-> StructDeserializer("Qangle", v[i])])
         [] t = "QuaternionArray" -> SeqEvent([i \in 1..Len(v) |-> StructDeserializer("Quaternion", v[i])])
         [] t = "VmatrixArray" -> SeqEvent([i \in 1..Len(v) |-> [d |-> "Seq", items |-> v[i]]])
         [] t = "Uint64Array" -> SeqEvent([i \in 1..Len(v) |-> PrimU64(v[i])])

\* a ValueDeserializer whose deserialize_option is visit_some(self) for every kind
ValueDeserializer_visit_some(doc, m, D, method) ==
    CASE method = "option" -> [e |-> "some", d |-> D]
      [] method = "enum" ->
            IF D.value.variant = "Element"
            THEN ElementDeserializer_visit(ElementDeserializer(D.value.v), "enum")
            ELSE [e |-> "enum", d |-> D]
      [] method = "any" -> ValueDeserializer_any(doc, m, D.value)

\* ValueDeserializer: deserialize_any, deserialize_option, deserialize_enum
ValueDeserializer_visit(doc, m, D, method) ==
    CASE method = "option" ->
            IF D.value.variant = "String"
            THEN StringDeserializer_visit(doc, StringDeserializer(D.value.v), "option")
            ELSE IF D.value.variant = "Element"
            THEN ElementDeserializer_visit(ElementDeserializer(D.value.v), "option")
            ELSE [e |-> "some", d |-> D]
      [] method = "enum" ->
            IF D.value.variant = "Element"
            THEN ElementDeserializer_visit(ElementDeserializer(D.value.v), "enum")
            ELSE [e |-> "enum", d |-> D]
      [] method = "any" -> ValueDeserializer_any(doc, m, D.value)

\* the visitor call a deserializer makes when asked through `method`
Visit(doc, m, D, method) ==
    CASE D.d = "Element" -> ElementDeserializer_visit(D, method)
      [] D.d = "String" -> StringDeserializer_visit(doc, D, method)
      [] D.d = "Value" -> ValueDeserializer_visit(doc, m, D, method)
      [] D.d = "Str" -> IF method = "enum" THEN [e |-> "enum", d |-> D] ELSE Event("str", D.v)
      [] D.d = "Buffer" -> BufferWrapper_visit(m, D)
      [] D.d = "Prim" -> Event(D.t, D.v)
      [] D.d = "Struct" -> Struct_visit(D.variant, D.value)
      [] D.d = "Seq" -> SeqEvent([i \in 1..Len(D.items) |-> PrimF32(D.items[i])])

(***************************************************************************)
(* The target shapes from_file is asked for.  A shape is named, so that a  *)
(* shape can contain itself:                                               *)
(*   "Value"          serde_json::Value, the generic any-value shape       *)
(*   "Option<Value>"  Option<Value>                                        *)
(*   "Map<Value>"     a map from String to Value                           *)
(*   "Variant"        a tagged union: newtype variants Foo, Bar and one    *)
(*                    per AttributeType name, each holding a Value         *)
(*   "Map<Variant>"   a map from String to that tagged union               *)
(*   "Map<Option>"    a map from String to Option<Value>                   *)
(***************************************************************************)
\* "Foo", "Bar"
FOO == <<70, 111, 111>>

BAR == <<66, 97, 114>>

VariantNames == {FOO, BAR} \cup {AttributeType_name(t) : t \in AttributeType}

ShapeNames ==
    {"Value", "Option<Value>", "Map<Value>", "Variant", "Map<Variant>", "Map<Option>"}

ShapeOf(s) ==
    CASE s = "Value" -> [k |-> "any", of |-> "Value"]
      [] s = "Option<Value>" -> [k |-> "opt", of |-> "Value"]
      [] s = "Map<Value>" -> [k |-> "map", of |-> "Value"]
      [] s = "Variant" -> [k |-> "enum", of |-> "Value"]
      [] s = "Map<Variant>" -> [k |-> "map", of |-> "Variant"]
      [] s = "Map<Option>" -> [k |-> "map", of |-> "Option<Value>"]

\* the Deserializer method the shape's Deserialize impl calls
MethodOf(s) ==
    CASE ShapeOf(s).k = "opt" -> "option"
      [] ShapeOf(s).k = "enum" -> "enum"
      [] OTHER -> "any"

\* Recursion through elements is unbounded in the code.  `path` holds the
\* (element, shape) pairs whose visit_map is in progress; a visit that is asked
\* for again inside itself makes the same calls again and never returns, so the
\* recursion ends when the stack is exhausted.
StackOverflow == [st |-> "overflow", err |-> [class |-> "stack overflow", data |-> "", ctx |-> <<>>]]

\* a variant_seed that takes an element's discriminant from the root's header
variant_seed_of_root(doc, D) ==
    CASE D.d = "Element" ->
            IF D.index >= Len(doc.headers) THEN Panic("index out of bounds")
            ELSE LET ev == StringDeserializer_visit(
                               doc, StringDeserializer(doc.headers[1].type_), "any")
                 IN IF ev.e = "panic" THEN Panic(ev.v)
                    ELSE IF ev.e = "none" THEN Err("invalid type", "Option")
                    ELSE MOk(ev.v)
      [] D.d = "Value" -> MOk(AttributeType_name(AttributeValue_kind(D.value)))
      [] D.d = "Str" -> MOk(D.v)

\* EnumAccess::variant_seed: the discriminant offered to the target
variant_seed(doc, D) ==
    CASE D.d = "Element" ->
            \* `let head: &Header = &self.headers[index];`
            IF D.index >= Len(doc.headers) THEN Panic("index out of bounds")
            ELSE LET ev == StringDeserializer_visit(
                               doc, StringDeserializer(doc.headers[D.index + 1].type_), "any")
                 IN IF ev.e = "panic" THEN Panic(ev.v)
                    ELSE IF ev.e = "none" THEN Err("invalid type", "Option")
                    ELSE MOk(ev.v)
      [] D.d = "Value" -> MOk(AttributeType_name(AttributeValue_kind(D.value)))
      [] D.d = "Str" -> MOk(D.v)

\* a map_err that leaves alone an error that already names an attribute
attribute_map_err_once(r, name) ==
    IF r.st = "err" /\ r.err.ctx = <<>>
    THEN [r EXCEPT !.err.ctx = <<[tag |-> "Could not deserialize attribute",
                                  name |-> name]>>]
    ELSE r

\* next_value_seed's map_err: the error is rebuilt around the attribute's name
attribute_map_err(r, name) ==
    IF r.st = "err"
    THEN [r EXCEPT !.err.ctx = Append(@, [tag |-> "Could not deserialize attribute",
                                          name |-> name])]
    ELSE r

RECURSIVE Deserialize(_, _, _, _, _)
RECURSIVE Accept_any(_, _, _, _, _)
RECURSIVE Accept_opt(_, _, _, _, _)
RECURSIVE Accept_map(_, _, _, _, _)
RECURSIVE Accept_enum(_, _, _, _, _)
RECURSIVE Accept(_, _, _, _, _)
RECURSIVE VisitElement(_, _, _, _, _)
RECURSIVE VisitSeq(_, _, _, _, _, _)
RECURSIVE VisitFields(_, _, _, _, _, _)
RECURSIVE VisitAttributes(_, _, _, _, _, _, _)

\* T::deserialize(D) for the shape s; `path` counts the element visits open
Deserialize(doc, m, D, s, path) ==
    Accept(doc, m, s, Visit(doc, m, D, MethodOf(s)), path)

\* visit_map on the attributes of element `index`, one level further down
VisitElement(doc, m, index, s, path) ==
    IF <<index, s>> \in path THEN StackOverflow
    ELSE VisitAttributes(doc, m, index, 0, s, path \cup {<<index, s>>}, <<>>)

\* serde_json's ValueVisitor
Accept_any(doc, m, s, ev, path) ==
    CASE ev.e = "none" -> MOk([t |-> "null"])
      [] ev.e = "some" -> Deserialize(doc, m, ev.d, s, path)
      [] ev.e = "seq" -> VisitSeq(doc, m, ev.items, s, path, <<>>)
      [] ev.e = "map" /\ ev.access.a = "Attributes" ->
            VisitElement(doc, m, ev.access.index, s, path)
      [] ev.e = "map" /\ ev.access.a = "Fields" ->
            VisitFields(doc, m, ev.access.entries, s, path, <<>>)
      [] ev.e = "bytes" -> Err("invalid type", "byte array")
      [] ev.e = "enum" -> Err("invalid type", "enum")
      [] OTHER -> MOk([t |-> ev.e, v |-> ev.v])

\* serde's OptionVisitor
Accept_opt(doc, m, s, ev, path) ==
    CASE ev.e = "none" -> MOk([t |-> "None"])
      [] ev.e = "some" ->
            Try(Deserialize(doc, m, ev.d, ShapeOf(s).of, path), LAMBDA r :
            MOk([t |-> "Some", v |-> r.val]))
      [] OTHER -> Err("invalid type", ev.e)

\* the visitor of a map from String to ShapeOf(s).of
Accept_map(doc, m, s, ev, path) ==
    CASE ev.e = "map" /\ ev.access.a = "Attributes" ->
            VisitElement(doc, m, ev.access.index, ShapeOf(s).of, path)
      [] ev.e = "map" /\ ev.access.a = "Fields" ->
            VisitFields(doc, m, ev.access.entries, ShapeOf(s).of, path, <<>>)
      [] OTHER -> Err("invalid type", ev.e)

\* the derived visitor of a tagged union: variant_seed for the discriminant,
\* then newtype_variant_seed, which is seed.deserialize(self)
Accept_enum(doc, m, s, ev, path) ==
    IF ev.e # "enum" THEN Err("invalid type", ev.e)
    ELSE Try(variant_seed(doc, ev.d), LAMBDA variant :
         IF variant.val \notin VariantNames
         THEN Err("unknown variant", variant.val)
         ELSE IF ev.d.d = "Str" THEN Err("invalid type", "unit variant")
         ELSE Try(Deserialize(doc, m, ev.d, ShapeOf(s).of, path), LAMBDA r :
              MOk([t |-> "variant", name |-> variant.val, v |-> r.val])))

\* the target's visitor, handed the event ev
Accept(doc, m, s, ev, path) ==
    CASE ev.e = "panic" -> Panic(ev.v)
      [] ShapeOf(s).k = "any" -> Accept_any(doc, m, s, ev, path)
      [] ShapeOf(s).k = "opt" -> Accept_opt(doc, m, s, ev, path)
      [] ShapeOf(s).k = "map" -> Accept_map(doc, m, s, ev, path)
      [] ShapeOf(s).k = "enum" -> Accept_enum(doc, m, s, ev, path)

VisitSeq(doc, m, items, s, path, acc) ==
    IF Len(items) = 0 THEN MOk([t |-> "seq", v |-> acc])
    ELSE Try(Deserialize(doc, m, Head(items), s, path), LAMBDA r :
         VisitSeq(doc, m, Tail(items), s, path, Append(acc, r.val)))

VisitFields(doc, m, entries, s, path, acc) ==
    IF Len(entries) = 0 THEN MOk([t |-> "map", v |-> acc])
    ELSE Try(Deserialize(doc, m, Head(entries)[2], s, path), LAMBDA r :
         VisitFields(doc, m, Tail(entries), s, path,
                          Append(acc, <<Head(entries)[1], r.val>>)))

\* a visit_map loop that hands the target the entries last to first
VisitAttributes_reversed(doc, m, index, attr, s, path, acc) ==
    IF index >= Len(doc.bodies) THEN Panic("index out of bounds")
    ELSE LET body == doc.bodies[index + 1] IN
    IF attr >= Len(body.attributes) THEN MOk([t |-> "map", v |-> acc])
    ELSE LET a == body.attributes[attr + 1] IN
    IF StringRef_index(a.name) < 0 THEN MOk([t |-> "map", v |-> acc])
    ELSE IF a.name >= Len(doc.strings) THEN Panic("index out of bounds")
    ELSE LET key == doc.strings[a.name + 1] IN
         Try(attribute_map_err(
                 Deserialize(doc, m, ValueDeserializer(a.value), s, path), key), LAMBDA r :
         VisitAttributes(doc, m, index, attr + 1, s, path,
                         <<(<<key, r.val>>)>> \o acc))

\* a visit_map loop that passes over an attribute without a name and goes on
VisitAttributes_skipping(doc, m, index, attr, s, path, acc) ==
    IF index >= Len(doc.bodies) THEN Panic("index out of bounds")
    ELSE LET body == doc.bodies[index + 1] IN
    IF attr >= Len(body.attributes) THEN MOk([t |-> "map", v |-> acc])
    ELSE LET a == body.attributes[attr + 1] IN
    IF StringRef_index(a.name) < 0
    THEN VisitAttributes(doc, m, index, attr + 1, s, path, acc)
    ELSE IF a.name >= Len(doc.strings) THEN Panic("index out of bounds")
    ELSE LET key == doc.strings[a.name + 1] IN
         Try(attribute_map_err(
                 Deserialize(doc, m, ValueDeserializer(a.value), s, path), key), LAMBDA r :
         VisitAttributes(doc, m, index, attr + 1, s, path,
                         Append(acc, <<key, r.val>>)))

\* the target's visit_map loop over an AttributesDeserializer { index, attr }:
\* next_key_seed, then next_value_seed, until next_key_seed gives None
VisitAttributes(doc, m, index, attr, s, path, acc) ==
    \* next_key_seed: `let body = &self.bodies[self.index];`
    IF index >= Len(doc.bodies) THEN Panic("index out of bounds")
    ELSE LET body == doc.bodies[index + 1] IN
    IF attr >= Len(body.attributes) THEN MOk([t |-> "map", v |-> acc])
    ELSE LET a == body.attributes[attr + 1] IN
    IF StringRef_index(a.name) < 0 THEN MOk([t |-> "map", v |-> acc])
    ELSE IF a.name >= Len(doc.strings) THEN Panic("index out of bounds")
    ELSE LET key == doc.strings[a.name + 1] IN
         \* next_value_seed
         Try(attribute_map_err(
                 Deserialize(doc, m, ValueDeserializer(a.value), s, path), key), LAMBDA r :
         VisitAttributes(doc, m, index, attr + 1, s, path,
                         Append(acc, <<key, r.val>>)))

\* from_file: an ElementDeserializer on index 0, handed to T::deserialize
from_file(doc, m, s) == Deserialize(doc, m, ElementDeserializer(0), s, {})

(***************************************************************************)
(* The descriptions the inputs are laid out from.                          *)
(***************************************************************************)
\* the largest array count and the largest reference the inputs use
MaxArrayLen == 2

\* the number of elements of the documents whose element graph is varied
MaxElements == 3

\* "generic", "vmap", "keyvalues2"
GENERIC == <<103, 101, 110, 101, 114, 105, 99>>

VMAP == <<118, 109, 97, 112>>

KEYVALUES2 == <<107, 101, 121, 118, 97, 108, 117, 101, 115, 50>>

\* "a", "b", "c"
STR_A == <<97>>

STR_B == <<98>>

STR_C == <<99>>

\* the decimal digits of a non-negative integer, and of any integer
RECURSIVE Digits(_)
Digits(n) == IF n < 10 THEN <<48 + n>> ELSE Digits(n \div 10) \o <<48 + (n % 10)>>

Decimal(n) == IF n < 0 THEN <<45>> \o Digits(0 - n) ELSE Digits(n)

\* a version as written in the header line: its digits, and its value when
\* that value fits a c_int
Ver(n) == [digits |-> Decimal(n), fits |-> TRUE, value |-> n]

\* "2147483648", one above the largest c_int
VerTooBig ==
    [digits |-> <<50, 49, 52, 55, 52, 56, 51, 54, 52, 56>>, fits |-> FALSE, value |-> 0]

HeaderLine(n1, v1, n2, v2) ==
    OPEN_TOKEN \o n1 \o SPACE \o v1.digits \o FORMAT_TOKEN \o n2 \o SPACE \o v2.digits
        \o CLOSE_TOKEN

Guid(k) == [i \in 1..16 |-> k]

Float(k) == <<k, 0, 128, 63>>

\* a document with two elements; element 0 refers to element 1
Base ==
    [fam |-> "base", missing |-> "none",
     n1 |-> BINARY, v1 |-> Ver(9), n2 |-> GENERIC, v2 |-> Ver(1),
     tag |-> 0, place |-> "", count |-> 0, refs |-> <<>>,
     line |-> cstring(HeaderLine(BINARY, Ver(9), GENERIC, Ver(1))),
     pad |-> le32(0),
     n_prefix |-> 1,
     prefix |-> <<[name |-> STR_A, tag |-> 2, payload |-> le32(7)]>>,
     n_strings |-> 4,
     strings |-> <<STR_A, STR_B, STR_C, FOO>>,
     n_elements |-> 2,
     heads |-> <<[type_ |-> 3, name |-> 0, guid |-> Guid(1)],
                 [type_ |-> 3, name |-> 1, guid |-> Guid(2)]>>,
     bods |-> <<[n_attributes |-> 2,
                 attrs |-> <<[name |-> 1, tag |-> 1, payload |-> le32(1)],
                             [name |-> 0, tag |-> 2, payload |-> le32(5)]>>],
                [n_attributes |-> 1,
                 attrs |-> <<[name |-> 2, tag |-> 3, payload |-> Float(1)]>>]>>,
     cut |-> 0,
     trailer |-> <<>>]

\* header lines of the grammar, over a few names and versions
WellFormedHeaders ==
    {[Base EXCEPT !.fam = "header", !.n1 = n1, !.v1 = v1, !.n2 = n2, !.v2 = v2,
                  !.line = cstring(HeaderLine(n1, v1, n2, v2))] :
        n1 \in {BINARY, KEYVALUES2},
        v1 \in {Ver(9), Ver(2), Ver(-1), Ver(2147483647), VerTooBig},
        n2 \in {GENERIC, VMAP},
        v2 \in {Ver(1), Ver(29), VerTooBig}}

\* "<!-- DMX encoding "
BAD_OPEN ==
    <<60, 33, 45, 45, 32, 68, 77, 88, 32, 101, 110, 99, 111, 100, 105, 110, 103, 32>>

\* header lines with one literal token missing or misplaced
MalformedLines ==
    LET n1 == BINARY
        v1 == <<57>>
        n2 == GENERIC
        v2 == <<49>>
    IN {<<"open", n1 \o SPACE \o v1 \o FORMAT_TOKEN \o n2 \o SPACE \o v2 \o CLOSE_TOKEN>>,
        <<"open", BAD_OPEN \o n1 \o SPACE \o v1 \o FORMAT_TOKEN \o n2 \o SPACE \o v2
                    \o CLOSE_TOKEN>>,
        <<"open", <<>>>>,
        <<"format", OPEN_TOKEN \o n1 \o SPACE \o v1 \o SPACE \o n2 \o SPACE \o v2
                    \o CLOSE_TOKEN>>,
        <<"format", OPEN_TOKEN \o Tail(FORMAT_TOKEN) \o n1 \o SPACE \o v1 \o SPACE \o n2
                    \o SPACE \o v2 \o CLOSE_TOKEN>>,
        <<"close", OPEN_TOKEN \o n1 \o SPACE \o v1 \o FORMAT_TOKEN \o n2 \o SPACE \o v2
                    \o <<10>>>>,
        <<"close", OPEN_TOKEN \o n1 \o SPACE \o v1 \o FORMAT_TOKEN \o n2 \o SPACE \o v2
                    \o <<32, 45, 45, 10>>>>,
        <<"close", CLOSE_TOKEN \o OPEN_TOKEN \o n1 \o SPACE \o v1 \o FORMAT_TOKEN \o n2
                    \o SPACE \o v2>>}

MalformedHeaders ==
    {[Base EXCEPT !.fam = "header", !.missing = l[1], !.line = cstring(l[2])] :
        l \in MalformedLines}

\* one item of the scalar kind with tag i, as the layout encodes it: a String
\* is an index into the string table in an element body and a NUL-terminated
\* run everywhere else
SampleItem(i, place, k) ==
    CASE i \in {1, 2, 7} -> le32(k)
      [] i = 3 -> Float(k)
      [] i = 4 -> <<k % 2>>
      [] i = 5 -> IF place = "body" THEN le32(k % 4) ELSE cstring(<<96 + k>>)
      [] i = 6 -> le32(2) \o <<k, k>>
      [] i = 8 -> <<k, k, k, 255>>
      [] i = 9 -> Float(k) \o Float(k)
      [] i \in {10, 12} -> Float(k) \o Float(k) \o Float(k)
      [] i \in {11, 13} -> Float(k) \o Float(k) \o Float(k) \o Float(k)
      [] i = 14 -> Flatten([j \in 1..16 |-> Float(k)])
      [] i = 15 -> le32(k) \o le32(0)
      [] i = 16 -> <<k>>

\* the payload that follows the tag byte t: a scalar for 1..16, a count and
\* that many items for 33..48, eight bytes of no meaning for any other tag
SamplePayload(t, place, n) ==
    IF t \in 1..16 THEN SampleItem(t, place, 1)
    ELSE IF t \in 33..48
    THEN le32(n) \o Flatten([j \in 1..n |-> SampleItem(t - 32, "array", j)])
    ELSE <<1, 2, 3, 4, 5, 6, 7, 8>>

\* a document with one element and one attribute value, of tag t, either in
\* the prefix block or in the element's body
Probe(t, place, n) ==
    LET a(name) == <<[name |-> name, tag |-> t, payload |-> SamplePayload(t, place, n)]>>
    IN [Base EXCEPT
          !.fam = "probe", !.tag = t, !.place = place, !.count = n,
          !.n_prefix = IF place = "prefix" THEN 1 ELSE 0,
          !.prefix = IF place = "prefix" THEN a(STR_A) ELSE <<>>,
          !.n_elements = 1,
          !.heads = <<[type_ |-> 3, name |-> 0, guid |-> Guid(1)]>>,
          !.bods = <<[n_attributes |-> IF place = "body" THEN 1 ELSE 0,
                      attrs |-> IF place = "body" THEN a(1) ELSE <<>>]>>]

Probes ==
    {Probe(t, place, IF t \in 33..48 THEN n ELSE 0) :
        t \in 0..255, place \in {"prefix", "body"}, n \in 0..MaxArrayLen}

\* the base document, cut short at every length
Cuts == {[Base EXCEPT !.fam = "cut", !.cut = c] : c \in 1..Len(Layout(Base))}

\* count fields that are negative, or larger than the records that follow
Counts ==
    {[Base EXCEPT !.fam = "count", !.place = "prefix", !.count = -1,
                  !.n_prefix = -1, !.prefix = <<>>],
     [Base EXCEPT !.fam = "count", !.place = "strings", !.count = -1,
                  !.n_strings = -1, !.strings = <<>>, !.n_elements = 0,
                  !.heads = <<>>, !.bods = <<>>],
     [Base EXCEPT !.fam = "count", !.place = "elements", !.count = -1,
                  !.n_elements = -1, !.heads = <<>>, !.bods = <<>>],
     [Base EXCEPT !.fam = "count", !.place = "elements", !.count = 0,
                  !.n_elements = 0, !.heads = <<>>, !.bods = <<>>],
     [Base EXCEPT !.fam = "count", !.place = "elements", !.count = 3, !.n_elements = 3]}

\* the element indices an Element value or an ElementArray item may hold: none,
\* each element, one past the last, and far out of range
Refs == (-1..MaxElements) \cup {999}

\* the type name of the i-th element of a graph document, as an index into
\* its string table: Foo, Bar, then "b", which no variant is named after
GraphType(i) == IF i = 1 THEN 3 ELSE IF i = 2 THEN 4 ELSE 1

\* a document with MaxElements elements: element 0 holds a = Element(x) and
\* b = ElementArray[y]; the other elements hold one Int each
Graph(x, y) ==
    [Base EXCEPT
       !.fam = "graph", !.refs = <<x, y>>,
       !.n_strings = 5,
       !.strings = <<STR_A, STR_B, STR_C, FOO, BAR>>,
       !.n_elements = MaxElements,
       !.heads = [i \in 1..MaxElements |->
                     [type_ |-> GraphType(i), name |-> 0, guid |-> Guid(i)]],
       !.bods = [i \in 1..MaxElements |->
                   IF i = 1
                   THEN [n_attributes |-> 2,
                         attrs |-> <<[name |-> 0, tag |-> 1, payload |-> le32(x)],
                                     [name |-> 1, tag |-> 33,
                                      payload |-> le32(1) \o le32(y)]>>]
                   ELSE [n_attributes |-> 1,
                         attrs |-> <<[name |-> 2, tag |-> 2, payload |-> le32(i)]>>]]]

Graphs == {Graph(x, y) : x \in Refs, y \in Refs}

\* the name indices an attribute may hold: none, "a", "b", "c", and one past
\* the end of the string table
NameRefs == {-1, 0, 1, 2, 4}

\* the base document with three Int attributes in element 0, named x, y, z
Named(x, y, z) ==
    [Base EXCEPT
       !.fam = "names", !.refs = <<x, y, z>>,
       !.bods[1] = [n_attributes |-> 3,
                    attrs |-> <<[name |-> x, tag |-> 2, payload |-> le32(11)],
                                [name |-> y, tag |-> 2, payload |-> le32(12)],
                                [name |-> z, tag |-> 2, payload |-> le32(13)]>>]]

Names == {Named(x, y, z) : x \in NameRefs, y \in NameRefs, z \in NameRefs}

\* the indices a String value may hold: two negative ones, "a", "b", and one
\* past the end of the string table
StringRefs == {-2, -1, 0, 1, 4}

\* the base document with two String attributes in element 0: a = String(x)
\* and b = String(y)
Strs(x, y) ==
    [Base EXCEPT
       !.fam = "strs", !.refs = <<x, y>>,
       !.bods[1] = [n_attributes |-> 2,
                    attrs |-> <<[name |-> 0, tag |-> 5, payload |-> le32(x)],
                                [name |-> 1, tag |-> 5, payload |-> le32(y)]>>]]

StrsDocs == {Strs(x, y) : x \in StringRefs, y \in StringRefs}

\* the base document with the same string twice in its string table
Duplicates ==
    [Base EXCEPT !.fam = "dup", !.strings = <<STR_A, STR_A, STR_C, FOO>>]

\* the base document with other bytes in its reserved field, and with a byte
\* ("!") between the newline of the header line and the terminator
Pads ==
    {[Base EXCEPT !.fam = "pad", !.pad = p, !.line = l] :
        p \in {le32(0), le32(1), le32(-1), <<1, 2, 3, 4>>},
        l \in {cstring(HeaderLine(BINARY, Ver(9), GENERIC, Ver(1))),
               cstring(HeaderLine(BINARY, Ver(9), GENERIC, Ver(1)) \o <<33>>)}}

\* the base document with a StringArray of n items as the only attribute of
\* its last element, whole and with its last c bytes missing
CutArray(n, c) ==
    [Base EXCEPT
       !.fam = "cutarray", !.tag = 37, !.count = n, !.cut = c,
       !.bods[2] = [n_attributes |-> 1,
                    attrs |-> <<[name |-> 1, tag |-> 37,
                                 payload |-> SamplePayload(37, "body", n)]>>]]

\* the bytes that may be missing at the end of such a document
ArrayCuts == 0..2

CutArrays == {CutArray(n, c) : n \in 1..MaxArrayLen, c \in ArrayCuts}

\* the base document with one attribute in element 0, named by the index x,
\* whose value has the unsupported tag byte 255
BadValue(x) ==
    [Base EXCEPT
       !.fam = "badvalue", !.tag = 255, !.refs = <<x>>,
       !.bods[1] = [n_attributes |-> 1,
                    attrs |-> <<[name |-> x, tag |-> 255,
                                 payload |-> SamplePayload(255, "body", 0)]>>]]

BadValues == {BadValue(x) : x \in NameRefs}

\* a document of three elements in a chain: element 0 holds a = Element(1),
\* element 1 holds b = Element(2), element 2 holds c, a value of scalar tag t
Deep(t) ==
    [Base EXCEPT
       !.fam = "deep", !.tag = t,
       !.n_elements = 3,
       !.heads = [i \in 1..3 |-> [type_ |-> 3, name |-> 0, guid |-> Guid(i)]],
       !.bods = <<[n_attributes |-> 1,
                   attrs |-> <<[name |-> 0, tag |-> 1, payload |-> le32(1)]>>],
                  [n_attributes |-> 1,
                   attrs |-> <<[name |-> 1, tag |-> 1, payload |-> le32(2)]>>],
                  [n_attributes |-> 1,
                   attrs |-> <<[name |-> 2, tag |-> t,
                                payload |-> SampleItem(t, "body", 1)]>>]>>]

\* an Int, which every shape of the model accepts, and a Binary
Deeps == {Deep(t) : t \in {2, 6}}

\* the negative counts the inputs use: -1 and a c_int close to the least
NegativeCounts == {-1, -2147483647}

\* a probe document whose one value is an array with a negative count
NegativeArrays ==
    {[Probe(t, place, n) EXCEPT !.fam = "negarray"] :
        t \in 33..47, place \in {"prefix", "body"}, n \in NegativeCounts}

\* the base document with a negative attribute count in its last body
NegativeBodies ==
    {[Base EXCEPT !.fam = "negbody", !.count = n,
                  !.bods[2] = [n_attributes |-> n, attrs |-> <<>>]] :
        n \in NegativeCounts}

\* a probe document whose one value is a Binary with a negative length prefix,
\* or a BinaryArray of one such element
NegativeBinaries ==
    {[Probe(t, place, 1) EXCEPT
         !.fam = "negbin", !.count = n,
         !.prefix = IF place = "prefix"
                    THEN <<[@[1] EXCEPT !.payload = IF t = 6 THEN le32(n)
                                                     ELSE le32(1) \o le32(n)]>>
                    ELSE @,
         !.bods = IF place = "body"
                  THEN <<[@[1] EXCEPT
                            !.attrs = <<[@[1] EXCEPT
                                           !.payload = IF t = 6 THEN le32(n)
                                                       ELSE le32(1) \o le32(n)]>>]>>
                  ELSE @] :
        t \in {6, 38}, place \in {"prefix", "body"}, n \in NegativeCounts}

Descs ==
    {Base} \cup WellFormedHeaders \cup MalformedHeaders \cup Probes \cup Cuts
        \cup Counts \cup Graphs \cup Names \cup StrsDocs \cup {Duplicates} \cup Pads
        \cup CutArrays \cup BadValues \cup Deeps \cup NegativeArrays
        \cup NegativeBodies \cup NegativeBinaries

(***************************************************************************)
(* lib.rs and dmx.rs: from_slice / from_reader, that is File::read, one    *)
(* action per section, and from_file on the File it returned.              *)
(***************************************************************************)
locals == <<header, prefix, strings, n_elements, headers, bodies>>

Init ==
    /\ mode \in Modes
    /\ desc \in Descs
    /\ input = InputOf(desc)
    /\ pos = 0
    /\ pc = "header"
    /\ outcome = "running"
    /\ error = None
    /\ header = None
    /\ prefix = None
    /\ strings = None
    /\ n_elements = None
    /\ headers = None
    /\ bodies = None
    /\ result = None
    /\ mat = None
    /\ last = None

\* a failure that hands the caller the sections decoded so far
Fail_partial(r) ==
    /\ outcome' = r.st
    /\ error' = r.err
    /\ result' = [header |-> header, prefix |-> prefix, strings |-> strings,
                  headers |-> headers, bodies |-> bodies]
    /\ UNCHANGED <<mode, desc, input, pos, pc, locals, mat, last>>

\* a `?` that returns the error, or a panic that unwinds: File::read is over
\* at the step it had reached, and nothing it had decoded is handed to the
\* caller
Fail(r) ==
    /\ outcome' = r.st
    /\ error' = r.err
    /\ UNCHANGED <<mode, desc, input, pos, pc, locals, result, mat, last>>

\* `let header = FileHeader::read(reader)?;`
ReadFileHeader ==
    /\ pc = "header" /\ outcome = "running"
    /\ \E r \in {FileHeader_read(mode, input, pos)} :
       IF r.st # "ok" THEN Fail(r)
       ELSE /\ header' = r.val
            /\ pos' = r.pos
            /\ pc' = "assert"
            /\ UNCHANGED <<mode, desc, input, outcome, error, prefix, strings,
                           n_elements, headers, bodies, result, mat, last>>

\* the two assert_eq! on the header
assert_encoding(h) ==
    IF h.encoding_name # BINARY
    THEN Panic("assertion failed: encoding_name == binary")
    ELSE IF h.encoding_version # 9
    THEN Panic("assertion failed: encoding_version == 9")
    ELSE [st |-> "ok"]

AssertEncoding ==
    /\ pc = "assert" /\ outcome = "running"
    /\ \E r \in {assert_encoding(header)} :
       IF r.st # "ok" THEN Fail(r)
       ELSE /\ pc' = "padding"
            /\ UNCHANGED <<mode, desc, input, pos, outcome, error, locals, result, mat, last>>

\* a decode that has no reserved field to read
ReadPadding_none ==
    /\ pc = "padding" /\ outcome = "running"
    /\ pc' = "prefix"
    /\ UNCHANGED <<mode, desc, input, pos, outcome, error, locals, result, mat, last>>

\* `let _padding = c_int::read(reader)?;`
ReadPadding ==
    /\ pc = "padding" /\ outcome = "running"
    /\ \E r \in {impl_from_bytes("c_int", mode, input, pos)} :
       IF r.st # "ok" THEN Fail(r)
       ELSE /\ pos' = r.pos
            /\ pc' = "prefix"
            /\ UNCHANGED <<mode, desc, input, outcome, error, locals, result, mat, last>>

ReadPrefix ==
    /\ pc = "prefix" /\ outcome = "running"
    /\ \E r \in {read_prefix(mode, input, pos)} :
       IF r.st # "ok" THEN Fail(r)
       ELSE /\ prefix' = r.val
            /\ pos' = r.pos
            /\ pc' = "strings"
            /\ UNCHANGED <<mode, desc, input, outcome, error, header, strings,
                           n_elements, headers, bodies, result, mat, last>>

ReadStrings ==
    /\ pc = "strings" /\ outcome = "running"
    /\ \E r \in {read_strings(mode, input, pos)} :
       IF r.st # "ok" THEN Fail(r)
       ELSE /\ strings' = r.val
            /\ pos' = r.pos
            /\ pc' = "headers"
            /\ UNCHANGED <<mode, desc, input, outcome, error, header, prefix,
                           n_elements, headers, bodies, result, mat, last>>

ReadHeaders ==
    /\ pc = "headers" /\ outcome = "running"
    /\ \E r \in {read_headers(mode, input, pos)} :
       IF r.st # "ok" THEN Fail(r)
       ELSE /\ n_elements' = r.val.n_elements
            /\ headers' = r.val.headers
            /\ pos' = r.pos
            /\ pc' = "bodies"
            /\ UNCHANGED <<mode, desc, input, outcome, error, header, prefix,
                           strings, bodies, result, mat, last>>

ReadBodies ==
    /\ pc = "bodies" /\ outcome = "running"
    /\ \E r \in {read_bodies(mode, input, pos, n_elements, strings)} :
       IF r.st # "ok" THEN Fail(r)
       ELSE /\ bodies' = r.val
            /\ pos' = r.pos
            /\ pc' = "return"
            /\ UNCHANGED <<mode, desc, input, outcome, error, header, prefix,
                           strings, n_elements, headers, result, mat, last>>

\* `Ok(File { header, prefix, strings, headers, bodies })`
File(h, p, s, hs, bs) ==
    [header |-> h, prefix |-> p, strings |-> s, headers |-> hs, bodies |-> bs]

Return ==
    /\ pc = "return" /\ outcome = "running"
    /\ result' = File(header, prefix, strings, headers, bodies)
    /\ outcome' = "ok"
    /\ pc' = "done"
    /\ UNCHANGED <<mode, desc, input, pos, error, locals, mat, last>>

\* File::read from its first statement to its last, on a reader of variant m
\* over the bytes buf
File_read(m, buf) ==
    Try(FileHeader_read(m, buf, 0), LAMBDA h :
    Try(assert_encoding(h.val), LAMBDA asserted :
    Try(impl_from_bytes("c_int", m, buf, h.pos), LAMBDA padding :
    Try(read_prefix(m, buf, padding.pos), LAMBDA pre :
    Try(read_strings(m, buf, pre.pos), LAMBDA strs :
    Try(read_headers(m, buf, strs.pos), LAMBDA hs :
    Try(read_bodies(m, buf, hs.pos, hs.val.n_elements, strs.val), LAMBDA bs :
    Ok(File(h.val, pre.val, strs.val, hs.val.headers, bs.val), bs.pos))))))))

\* `File::read(&mut Slice(reader))`
from_slice(buf) == File_read("slice", buf)

\* `File::read(&mut reader)`
from_reader(buf) == File_read("stream", buf)

\* a from_file that takes the bodies out of the File it is given
FromFile_consuming ==
    /\ pc = "done"
    /\ outcome = "ok"
    /\ \E s \in ShapeNames :
          mat' = [shape |-> s, res |-> from_file(result, mode, s)]
    /\ result' = [result EXCEPT !.bodies = <<>>]
    /\ UNCHANGED <<mode, desc, input, pos, pc, outcome, error, locals, last>>

\* from_file::<T>(&file), for a target shape T, on the File that was returned
FromFile ==
    /\ pc = "done"
    /\ outcome = "ok"
    /\ \E s \in ShapeNames :
          mat' = [shape |-> s, res |-> from_file(result, mode, s)]
    /\ UNCHANGED <<mode, desc, input, pos, pc, outcome, error, locals, result, last>>

Next ==
    \/ ReadFileHeader
    \/ AssertEncoding
    \/ ReadPadding
    \/ ReadPrefix
    \/ ReadStrings
    \/ ReadHeaders
    \/ ReadBodies
    \/ Return
    \/ FromFile

Spec == Init /\ [][Next]_vars

(***************************************************************************)
(* read.rs on its own: the operations of the Reader trait and the string   *)
(* read built on them, applied one after another to a short input in       *)
(* either variant.  `last` records the latest call and what it returned.   *)
(***************************************************************************)
\* the longest input the reader operations are run on
MaxLen == 3

\* NUL, "\n", "a", and a byte that is not UTF-8 on its own
ReaderBytes == {0, 10, 97, 255}

RECURSIVE SeqsUpTo(_, _)
SeqsUpTo(S, n) ==
    IF n = 0 THEN {<<>>}
    ELSE LET shorter == SeqsUpTo(S, n - 1) IN
         shorter \cup {Append(q, b) : q \in {x \in shorter : Len(x) = n - 1}, b \in S}

\* a header line, its terminator and the reserved field, for the header parser
HeaderInput == cstring(HeaderLine(BINARY, Ver(9), GENERIC, Ver(1))) \o le32(0)

ReaderInputs == SeqsUpTo(ReaderBytes, MaxLen) \cup {HeaderInput}

InitReader ==
    /\ mode \in Modes
    /\ input \in ReaderInputs
    /\ pos = 0
    /\ pc = "reader"
    /\ outcome = "running"
    /\ last = None
    /\ desc = None
    /\ error = None
    /\ header = None
    /\ prefix = None
    /\ strings = None
    /\ n_elements = None
    /\ headers = None
    /\ bodies = None
    /\ result = None
    /\ mat = None

\* one call on the reader: the cursor moves when it succeeds, and the first
\* failure ends the decode the call is part of
Call(op, arg, r) ==
    /\ last' = [op |-> op, arg |-> arg, from |-> pos, r |-> r]
    /\ pos' = IF r.st = "ok" THEN r.pos ELSE pos
    /\ outcome' = IF r.st = "ok" THEN outcome ELSE r.st
    /\ UNCHANGED <<mode, desc, input, pc, error, locals, result, mat>>

OpReadUntil ==
    /\ pc = "reader" /\ outcome = "running"
    /\ \E d \in ReaderBytes : Call("read_until", d, read_until(mode, input, pos, d))

OpReadInto ==
    /\ pc = "reader" /\ outcome = "running"
    /\ \E T \in {"u8", "c_int"} :
          Call("read_into", size_of(T), read_into(mode, input, pos, size_of(T)))

OpReadBytes ==
    /\ pc = "reader" /\ outcome = "running"
    /\ \E size \in -1..(MaxLen + 1) :
          Call("read_bytes", size, read_bytes(mode, input, pos, size))

OpReadString ==
    /\ pc = "reader" /\ outcome = "running"
    /\ Call("String::read", 0, RString_read(mode, input, pos))

OpFileHeader ==
    /\ pc = "reader" /\ outcome = "running"
    /\ Call("FileHeader::read", 0, FileHeader_read(mode, input, pos))

NextReader ==
    \/ OpReadUntil
    \/ OpReadInto
    \/ OpReadBytes
    \/ OpReadString
    \/ OpFileHeader

SpecReader == InitReader /\ [][NextReader]_vars

(***************************************************************************)
(* Properties.                                                             *)
(***************************************************************************)
\* File::read is over, by a return or by a panic
Finished == outcome # "running"

\* the one attribute value of a probe document, where File::read has put it
ProbeValue(file) ==
    IF desc.place = "prefix" THEN file.prefix[1][2]
    ELSE file.bodies[1].attributes[1].value

\* the probe document holds exactly one attribute value, at the place probed
ProbeAlone(file) ==
    IF desc.place = "prefix"
    THEN Len(file.prefix) = 1 /\ Len(file.bodies[1].attributes) = 0
    ELSE Len(file.prefix) = 0 /\ Len(file.bodies[1].attributes) = 1

\* the header line was parsed and names another encoding than binary 9
OtherEncoding ==
    /\ header # None
    /\ header.encoding_name # BINARY \/ header.encoding_version # 9

\* C1: an input whose header line is well formed but names an encoding other
\* than "binary" 9 makes from_slice / from_reader return an error through the
\* result, with no Document; the call does not abort.
C1_OtherEncodingIsAnError ==
    (Finished /\ OtherEncoding) => (outcome = "err" /\ result = None)

\* C1: a decode that is over after a well-formed header line naming another
\* encoding than binary 9
C1_OtherEncodingDecoded == Finished /\ OtherEncoding

\* attribute k of the root element of the decoded File
RootValue(k) == result.bodies[1].attributes[k].value

\* a materialization that reaches an Element index at or above the element
\* count: as the root's first attribute, or as the one item of its second
\* attribute when the first is an Element that designates another element
OutOfRangeReached ==
    /\ mat # None
    /\ desc.fam = "graph"
    /\ \/ RootValue(1).v >= Len(result.headers)
       \/ /\ RootValue(1).v \in 1..(Len(result.headers) - 1)
          /\ RootValue(2).v[1] >= Len(result.headers)

\* C2: an Element index at or above the element count that is reached during
\* materialization, as a scalar Element attribute, an ElementArray item or a
\* tagged-union payload, makes from_file return an error result.
C2_OutOfRangeIsAnError == OutOfRangeReached => mat.res.st = "err"

\* C2: the out-of-range index is reached under the tagged-union shape, and
\* from_file panics
C2_OutOfRangeReached ==
    OutOfRangeReached /\ mat.shape = "Map<Variant>" /\ mat.res.st = "panic"

\* the scalar kinds in the order of their tags 1..16
KindOrder ==
    <<"Element", "Int", "Float", "Bool", "String", "Binary", "Time", "Color",
      "Vector2", "Vector3", "Vector4", "Qangle", "Quaternion", "Vmatrix",
      "Uint64", "Uint8">>

ArrayOf(kind) == kind \o "Array"

\* item j of an array value is what the scalar rule of the kind with tag t
\* decodes from the bytes of that item
ItemDecodedAs(t, value, j) ==
    LET r == Readable(ItemType(KindOrder[t], "String"), mode, SampleItem(t, "array", j), 0)
    IN r.st = "ok" /\ value.v[j] = r.val

\* a probe of tag byte b has been decoded to the end
Probed(b) == desc.fam = "probe" /\ desc.tag = b /\ Finished

C4_ScalarTagSelectsKind ==
    \A t \in 1..16 :
        Probed(t) =>
            /\ outcome = "ok"
            /\ ProbeAlone(result)
            /\ ProbeValue(result).variant = KindOrder[t]
            /\ AttributeValue_kind(ProbeValue(result)) = KindOrder[t]

\* C4: a Uint8 (tag 16) has been decoded in an element body
C4_ScalarDecoded ==
    Probed(16) /\ desc.place = "body" /\ outcome = "ok"
        /\ ProbeValue(result).variant = "Uint8"

\* the tag bytes AttributeType::read accepts
SupportedTags == (1..16) \cup (33..47)

\* C5: a tag byte that is no supported scalar or array tag makes the value
\* decode fail with the unsupported-type error carrying that byte; no value is
\* produced and the enclosing decode fails.
C5_UnsupportedTagIsAnError ==
    \A b \in (0..255) \ SupportedTags :
        Probed(b) =>
            /\ outcome = "err"
            /\ error.class = "unimplemented AttributeType"
            /\ error.data = b
            /\ result = None
            /\ pc = IF desc.place = "prefix" THEN "prefix" ELSE "bodies"

\* C5: the tag byte 255 has been met in an element body and rejected
C5_UnsupportedTagMet ==
    Probed(255) /\ desc.place = "body" /\ outcome = "err" /\ error.data = 255

\* the Document handed to the caller is the five sections File::read decoded
Complete(file) ==
    /\ pc = "done"
    /\ file.header = header
    /\ file.prefix = prefix
    /\ file.strings = strings
    /\ file.headers = headers
    /\ file.bodies = bodies

\* C6: from_slice / from_reader end with a complete Document or with a
\* failure and no Document; a failure in a later step never yields a Document
\* holding the sections decoded before it.
C6_CompleteOrNothing ==
    /\ result # None => (outcome = "ok" /\ Complete(result))
    /\ outcome \in {"running", "ok", "err", "panic"}
    /\ outcome = "ok" => result # None
    /\ outcome \in {"err", "panic"} => (result = None /\ error # None)

\* C6: the decode failed in the element bodies, after the header, the prefix,
\* the strings and the element headers had been decoded
C6_FailedInBodies ==
    Finished /\ outcome = "err" /\ pc = "bodies" /\ result = None

Max0(n) == IF n < 0 THEN 0 ELSE n

\* headers[i] and bodies[i] are the i-th header record and the i-th body
\* record of the input
RecordsInOrder(file) ==
    /\ Len(file.headers) = Len(desc.heads)
    /\ Len(file.bodies) = Len(desc.bods)
    /\ \A i \in 1..Len(file.headers) : file.headers[i] = desc.heads[i]
    /\ \A i \in 1..Len(file.bodies) :
          /\ Len(file.bodies[i].attributes) = Max0(desc.bods[i].n_attributes)
          /\ \A j \in 1..Len(file.bodies[i].attributes) :
                file.bodies[i].attributes[j].name = desc.bods[i].attrs[j].name

\* C7 as stated: a returned Document has as many headers as bodies, both the
\* element count read from the input, and headers[i], bodies[i] come from the
\* i-th records.
C7_LengthsAreTheCount ==
    result # None =>
        /\ Len(result.headers) = Len(result.bodies)
        /\ Len(result.headers) = n_elements
        /\ RecordsInOrder(result)

\* C7, amended: a returned Document has as many headers as bodies, both the
\* element count read from the input when that count is not negative and zero
\* when it is, and headers[i], bodies[i] come from the i-th records.
C7_LengthsAreTheCountOrZero ==
    result # None =>
        /\ n_elements = desc.n_elements
        /\ Len(result.headers) = Len(result.bodies)
        /\ Len(result.headers) = Max0(n_elements)
        /\ RecordsInOrder(result)

\* C7: a Document of MaxElements elements has been returned
C7_Returned ==
    result # None /\ n_elements = MaxElements /\ Len(result.bodies) = MaxElements

\* a header line of the grammar has been handed to the header parser
HeaderLineRead ==
    desc.fam = "header" /\ desc.missing = "none" /\ (pc # "header" \/ Finished)

\* the four fields are those of the line; a version is compared by its digits
FieldsOf(h) ==
    /\ h.encoding_name = desc.n1
    /\ Decimal(h.encoding_version) = desc.v1.digits
    /\ h.format_name = desc.n2
    /\ Decimal(h.format_version) = desc.v2.digits

\* C8 as stated: a header line "<!-- dmx encoding N1 V1 format N2 V2 -->\n",
\* with V1 and V2 decimal integers, parses to the four fields N1, V1, N2, V2.
C8_HeaderLineParses == HeaderLineRead => (header # None /\ FieldsOf(header))

\* C8, amended: such a line parses to the four fields when V1 and V2 fit a
\* signed 32-bit integer; when one does not, the parser returns the integer
\* parse error and no header.
C8_HeaderLineParsesInRange ==
    HeaderLineRead =>
        IF desc.v1.fits /\ desc.v2.fits
        THEN header # None /\ FieldsOf(header)
        ELSE header = None /\ outcome = "err" /\ error.class = "ParseIntError"

\* C8: the line "<!-- dmx encoding keyvalues2 2147483647 format vmap 29 -->\n"
\* has been parsed
C8_Parsed ==
    /\ HeaderLineRead /\ header # None
    /\ header.encoding_name = KEYVALUES2 /\ header.encoding_version = 2147483647
    /\ header.format_name = VMAP /\ header.format_version = 29

\* a header line with a literal token missing or misplaced has been handed
\* to the header parser
TokenMissing ==
    desc.fam = "header" /\ desc.missing # "none" /\ (pc # "header" \/ Finished)

\* C9: a header line in which the opening token, the " format " separator or
\* the closing token is missing or misplaced makes the decode fail at once
\* with an error returned through the result.
C9_MissingTokenIsAnError ==
    TokenMissing => (pc = "header" /\ header = None /\ outcome = "err" /\ result = None)

\* C9: a line without its opening token has been handed to the parser, which
\* panicked
C9_OpenTokenMissing == TokenMissing /\ desc.missing = "open" /\ outcome = "panic"

\* the first occurrence of byte d in the input at or after offset `from`,
\* as a count of bytes from the start; 0 when there is none
FirstAt(from, d) ==
    IF \E k \in (from + 1)..Len(input) : input[k] = d
    THEN CHOOSE k \in (from + 1)..Len(input) :
             input[k] = d /\ \A j \in (from + 1)..(k - 1) : input[j] # d
    ELSE 0

\* C10: in both variants read_until(d) returns the bytes up to and including
\* the first d and leaves the cursor after it; when d does not occur in what
\* remains, read_until fails, and so does the string read built on it.
C10_ReadUntilNeedsDelimiter ==
    /\ (last # None /\ last.op = "read_until") =>
          IF FirstAt(last.from, last.arg) > 0
          THEN /\ last.r.st = "ok"
               /\ last.r.val = SubSeq(input, last.from + 1, FirstAt(last.from, last.arg))
               /\ last.r.pos = FirstAt(last.from, last.arg)
               /\ pos = last.r.pos
          ELSE last.r.st = "err"
    /\ (last # None /\ last.op = "String::read" /\ FirstAt(last.from, 0) = 0) =>
          last.r.st = "err"

\* C10: the stream variant was asked for a delimiter that does not occur in
\* the bytes that remain, and returned those bytes
C10_DelimiterAbsent ==
    /\ last # None /\ last.op = "read_until" /\ mode = "stream"
    /\ FirstAt(last.from, last.arg) = 0 /\ last.from < Len(input)
    /\ last.r.st = "ok" /\ last.r.val = Rest(input, last.from)

\* a fixed-width read or read_bytes(n) was asked for more bytes than remain
ShortRead ==
    /\ last # None /\ last.op \in {"read_into", "read_bytes"}
    /\ last.arg >= 0 /\ last.arg > Len(input) - last.from

\* C11: in both variants a read_into or a read_bytes(n) asked for more bytes
\* than remain returns an I/O-class error through the result.
C11_ShortReadIsAnError ==
    ShortRead => (last.r.st = "err" /\ last.r.err.class = "Io")

\* C11: the slice variant was asked for more bytes than remain, and panicked
\* in split_at
C11_ShortSliceRead ==
    ShortRead /\ mode = "slice" /\ last.r.st = "panic" /\ outcome = "panic"

\* the attributes of a body that come before its first negative name
RECURSIVE Delivered(_)
Delivered(attrs) ==
    IF Len(attrs) = 0 \/ Head(attrs).name < 0 THEN <<>>
    ELSE <<Head(attrs)>> \o Delivered(Tail(attrs))

\* the root element has been materialized as a mapping, and from_file returned it
MappedRoot ==
    /\ pc = "done" /\ mat # None
    /\ mat.shape \in {"Value", "Map<Value>"}
    /\ mat.res.st = "ok"

\* the entry a mapping over element 0 holds for attribute a: its resolved name,
\* and the value materialized from a.value
EntryOf(a) ==
    <<result.strings[a.name + 1],
      Deserialize(result, mode, ValueDeserializer(a.value), "Value", {<<0, "Value">>}).val>>

\* entries is the mapping of the attributes attrs, entry by entry in their order
EntriesAre(entries, attrs) ==
    /\ Len(entries) = Len(attrs)
    /\ \A k \in 1..Len(attrs) : entries[k] = EntryOf(attrs[k])

\* the names of a mapping's entries, and the resolved names of attributes
KeysOf(entries) == [k \in 1..Len(entries) |-> entries[k][1]]

NamesOf(attrs) == [k \in 1..Len(attrs) |-> result.strings[attrs[k].name + 1]]

\* every Element attribute of the root that was delivered as a mapping holds
\* the names of the element it refers to, in that element's order
NestedInOrder(entries, attrs) ==
    \A k \in 1..Len(attrs) :
        (attrs[k].value.variant = "Element" /\ attrs[k].value.v >= 0) =>
            /\ entries[k][2].t = "map"
            /\ KeysOf(entries[k][2].v)
                   = NamesOf(Delivered(result.bodies[attrs[k].value.v + 1].attributes))

VariantRoot == pc = "done" /\ mat # None /\ mat.shape = "Map<Variant>"

\* the discriminant the claim gives a value: the type name of the element an
\* Element refers to, the name of the kind for every other value
DiscriminantOf(value) ==
    IF value.variant = "Element"
    THEN result.strings[result.headers[value.v + 1].type_ + 1]
    ELSE AttributeType_name(value.variant)

\* the value materialized on its own, as the generic shape, inside the root
PayloadOf(value) ==
    Deserialize(result, mode, ValueDeserializer(value), "Value", {<<0, "Variant">>}).val

VariantEntry(a) ==
    <<result.strings[a.name + 1],
      [t |-> "variant", name |-> DiscriminantOf(a.value), v |-> PayloadOf(a.value)]>>

\* an Element attribute of the root that refers to an element of the document
ValidElement(a) ==
    a.value.variant = "Element" /\ a.value.v \in 0..(Len(result.headers) - 1)

OptionalRoot ==
    pc = "done" /\ mat # None /\ mat.shape = "Map<Option>" /\ mat.res.st = "ok"

\* a String or an Element value whose index is negative
NegativeRef(value) == value.variant \in {"String", "Element"} /\ value.v < 0

\* what an optional request yields for a value according to the claim: absent
\* for a negative String or Element index, and otherwise present, holding the
\* value materialized on its own
OptionalOf(value) ==
    IF NegativeRef(value) THEN [t |-> "None"]
    ELSE [t |-> "Some",
          v |-> Deserialize(result, mode, ValueDeserializer(value), "Value",
                            {<<0, "Option<Value>">>}).val]

ThisEntryPoint ==
    IF mode = "slice" THEN from_slice(input) ELSE from_reader(input)

\* the entry point that was not called, applied to the same bytes
OtherEntryPoint ==
    IF mode = "slice" THEN from_reader(input) ELSE from_slice(input)

\* C15: every byte sequence that one of from_slice and from_reader decodes is
\* decoded by the other one too, and the two Documents have equal header,
\* prefix attributes, strings, element headers and element bodies.
C15_EntryPointsAgree ==
    (pc = "done" /\ outcome = "ok") =>
        /\ ThisEntryPoint = Ok(result, pos)
        /\ OtherEntryPoint.st = "ok"
        /\ OtherEntryPoint.val.header = result.header
        /\ OtherEntryPoint.val.prefix = result.prefix
        /\ OtherEntryPoint.val.strings = result.strings
        /\ OtherEntryPoint.val.headers = result.headers
        /\ OtherEntryPoint.val.bodies = result.bodies

\* C15: a document with strings, a prefix attribute and two element bodies was
\* decoded from a stream, and from the same bytes as a slice
C15_DecodedBothWays ==
    /\ pc = "done" /\ outcome = "ok" /\ mode = "stream" /\ desc.fam = "base"
    /\ from_slice(input).st = "ok"
    /\ Len(result.strings) = 4 /\ Len(result.bodies) = 2 /\ Len(result.prefix) = 1

OtherMode == IF mode = "slice" THEN "stream" ELSE "slice"

\* a document whose root holds one attribute of a supported kind that refers
\* to no element has been decoded and materialized as the generic shape
KindMaterialized ==
    /\ desc.fam = "probe" /\ desc.place = "body"
    /\ desc.tag \in SupportedTags \ {1, 33}
    /\ pc = "done" /\ mat # None /\ mat.shape = "Value"

\* C16: for an input decoded by both entry points, materializing the
\* slice-mode Document and the stream-mode Document as the generic any-value
\* shape both succeed and give equal results, for every attribute kind,
\* Binary and BinaryArray included.
C16_AnyValueAgrees ==
    KindMaterialized =>
        /\ mat.res.st = "ok"
        /\ from_file(OtherEntryPoint.val, OtherMode, "Value") = mat.res

\* C16: a Binary attribute decoded from a slice was refused by the generic
\* shape, which accepted it from the stream-mode Document of the same bytes
C16_BinaryRefusedFromSlice ==
    /\ KindMaterialized /\ desc.tag = 6 /\ mode = "slice"
    /\ mat.res.st = "err" /\ mat.res.err.data = "byte array"
    /\ from_file(from_reader(input).val, "stream", "Value").st = "ok"

\* a graph document whose Element and ElementArray indices all refer to an
\* element of the document, or to none, has been materialized as the generic
\* shape
GraphMaterialized ==
    /\ desc.fam = "graph"
    /\ desc.refs[1] \in -1..(MaxElements - 1) /\ desc.refs[2] \in -1..(MaxElements - 1)
    /\ pc = "done" /\ mat # None /\ mat.shape = "Value"

\* C17: on every decoded Document, one with a cyclic element graph included, a
\* materialization into the generic any-value shape terminates: it returns a
\* value or it returns an error.
C17_MaterializationReturns ==
    GraphMaterialized => mat.res.st \in {"ok", "err"}

\* C17: element 0 refers to itself, and its materialization recursed until
\* the stack was exhausted
C17_SelfReferenceOverflowed ==
    GraphMaterialized /\ desc.refs[1] = 0 /\ mat.res = StackOverflow

\* a step taken once the Document has been returned: a from_file call
MaterializationStep ==
    /\ result' = result
    /\ locals' = locals
    /\ mat' # None =>
          /\ mat'.res = from_file(result', mode', mat'.shape)
          /\ (mat # None /\ mat'.shape = mat.shape) => mat'.res = mat.res

Size(records) == Len(Flatten(records))

\* where each section of the layout ends, as a count of bytes from the start
EndHeaderLine == Len(desc.line)

EndReserved == EndHeaderLine + Len(desc.pad)

EndPrefix ==
    EndReserved + 4 + Size([i \in 1..Len(desc.prefix) |-> LayoutPrefix(desc.prefix[i])])

EndStrings ==
    EndPrefix + 4 + Size([i \in 1..Len(desc.strings) |-> cstring(desc.strings[i])])

EndHeaders ==
    EndStrings + 4 + Size([i \in 1..Len(desc.heads) |-> LayoutHeader(desc.heads[i])])

\* the bodies end where the layout ends them, or where the input ends when its
\* last bytes are missing
EndBodies ==
    LET end == EndHeaders + Size([i \in 1..Len(desc.bods) |-> LayoutBody(desc.bods[i])])
    IN IF end <= Len(input) THEN end ELSE Len(input)

\* the byte at which the step File::read is at begins
StartOf(step) ==
    CASE step = "header" -> 0
      [] step \in {"assert", "padding"} -> EndHeaderLine
      [] step = "prefix" -> EndReserved
      [] step = "strings" -> EndPrefix
      [] step = "headers" -> EndStrings
      [] step = "bodies" -> EndHeaders
      [] step \in {"return", "done"} -> EndBodies

\* the decode of this input is one that succeeds
Decodes == desc # None /\ ThisEntryPoint.st = "ok"

\* every step of the decode begins where the layout says the section begins
SectionsInOrder ==
    /\ pos = StartOf(pc)
    /\ pc \in {"headers", "bodies", "return", "done"} =>
          \A i \in 1..Len(strings) : strings[i] = desc.strings[i]
    /\ pc \in {"return", "done"} => Len(bodies) = Len(headers)

\* C19: a successful decode consumes the input in the order header line,
\* 4-byte reserved field, prefix count and pairs, string count and strings,
\* element count and element headers, one body per element, each section
\* starting at the byte where the previous one ended, and the string table
\* holds exactly stringCount strings in file order, without deduplication.
C19_SectionsAndStringCount ==
    Decodes =>
        /\ SectionsInOrder
        /\ pc \in {"headers", "bodies", "return", "done"} =>
              Len(strings) = desc.n_strings

\* C19 (amended): as C19, with a string table that holds stringCount strings
\* when stringCount is not negative and none when it is.
C19_SectionsAndStringCountOrZero ==
    Decodes =>
        /\ SectionsInOrder
        /\ pc \in {"headers", "bodies", "return", "done"} =>
              Len(strings) = Max0(desc.n_strings)

\* C19: a document whose string table holds the same string twice has been
\* decoded to its last byte, and the table holds it twice
C19_DuplicateKept ==
    /\ desc.fam = "dup" /\ pc = "done" /\ outcome = "ok"
    /\ pos = Len(input) /\ pos = EndBodies
    /\ strings = <<STR_A, STR_A, STR_C, FOO>>

\* the input with its reserved field zeroed
ZeroReserved == InputOf([desc EXCEPT !.pad = le32(0)])

\* the header is consumed up to `headerEnd`, the reserved field is the four
\* bytes after it, the prefix count the four bytes after those, and the
\* reserved field's value has no part in the Document
ReservedFollows(headerEnd) ==
    /\ pc \in {"assert", "padding"} => pos = headerEnd
    /\ pc = "prefix" => pos = headerEnd + 4
    /\ pc = "strings" =>
          Len(prefix)
              = Max0(i32_from_le_bytes(SubSeq(input, headerEnd + 5, headerEnd + 8)))
    /\ pc = "done" => File_read(mode, ZeroReserved) = Ok(result, pos)

StringDecoded == Probed(5) /\ pc = "done" /\ outcome = "ok"

\* the tag byte and the payload of the probed attribute value, as laid out
ProbeBytes ==
    IF desc.place = "prefix"
    THEN <<desc.tag>> \o desc.prefix[1].payload
    ELSE <<desc.tag>> \o desc.bods[1].attrs[1].payload

\* the codec the probed value is read with: AttributeValue<_, _, R::String> in
\* the prefix block, AttributeValue<_, _, StringRef> in an element body
ProbeCodec == IF desc.place = "prefix" THEN "String" ELSE "StringRef"

\* the NUL-terminated, UTF-8-validated run of bytes that follows the tag byte
RunAfterTag == str_read("slice", ProbeBytes, 1)

\* the value was decoded as that run, and the cursor left after its terminator
DecodedAsRun ==
    /\ RunAfterTag.st = "ok"
    /\ AttributeValue_read(ProbeCodec, mode, ProbeBytes, 0).pos = RunAfterTag.pos
    /\ ProbeValue(result) = [variant |-> "String", v |-> RunAfterTag.val]

\* the value was decoded as a 4-byte signed index into the string table
DecodedAsIndex ==
    /\ AttributeValue_read(ProbeCodec, mode, ProbeBytes, 0).pos = 5
    /\ ProbeValue(result)
           = [variant |-> "String", v |-> i32_from_le_bytes(SubSeq(ProbeBytes, 2, 5))]

\* C21: a String-tagged (tag 5) attribute value is decoded by the same rule in
\* the prefix block and in element bodies: as a NUL-terminated, UTF-8-validated
\* run of bytes taken from the stream at that position.
C21_StringIsARunEverywhere == StringDecoded => DecodedAsRun

\* C21 (amended): a String-tagged attribute value is decoded as a
\* NUL-terminated, UTF-8-validated run of bytes in the prefix block, and as a
\* 4-byte little-endian signed index into the string table in an element body.
C21_StringIsARunInPrefixOnly ==
    StringDecoded => IF desc.place = "prefix" THEN DecodedAsRun ELSE DecodedAsIndex

\* C21: a String-tagged value in an element body was decoded as the index 1
C21_IndexInBody ==
    /\ StringDecoded /\ desc.place = "body"
    /\ result.bodies[1].attributes[1].value = [variant |-> "String", v |-> 1]

\* C15: a document that ends in a StringArray whose last terminator is missing
\* was decoded from the stream, and refused from the same bytes as a slice
C15_DecodedFromStreamOnly ==
    /\ pc = "done" /\ outcome = "ok" /\ mode = "stream"
    /\ desc.fam = "cutarray" /\ desc.cut = 1 /\ desc.count = 1
    /\ result.bodies[2].attributes[1].value = [variant |-> "StringArray", v |-> <<<<>>>>]
    /\ from_slice(input).st = "err"

\* a document with one array-tagged attribute value, of the array kind of the
\* scalar tag t, has been decoded
ArrayDecoded(t) == Probed(t + 32) /\ pc = "done" /\ outcome = "ok"

\* the bytes of the probed value are decoded to the value held by the Document,
\* and the cursor is left after the last of them
WholeValueRead ==
    AttributeValue_read(ProbeCodec, mode, ProbeBytes, 0)
        = Ok(ProbeValue(result), Len(ProbeBytes))

\* item j of the probed array is what reading the type T decodes from the
\* bytes of item j, all of them
ItemReadAs(T, t, j) ==
    \E r \in {Readable(T, mode, SampleItem(t, "array", j), 0)} :
        /\ r.st = "ok"
        /\ r.pos = Len(SampleItem(t, "array", j))
        /\ ProbeValue(result).v[j] = r.val

\* C22: for every array tag and every stored count n >= 0, the decoded array
\* has exactly n elements, in stream order, each decoded by the rule of the
\* corresponding scalar kind (each BinaryArray element with its own 4-byte
\* length prefix), and the cursor ends exactly after the n-th element.
C22_ItemsByTheScalarRule ==
    \A t \in 1..15 :
        ArrayDecoded(t) =>
            /\ Len(ProbeValue(result).v) = desc.count
            /\ WholeValueRead
            /\ \A j \in 1..desc.count :
                  ItemReadAs(ItemType(KindOrder[t], ProbeCodec), t, j)

\* C22 (amended): as C22, each element being decoded by the rule of the array
\* arm, which is the scalar kind's rule but for StringArray: its elements are
\* NUL-terminated runs in element bodies too, where a scalar String is an
\* index into the string table.
C22_ItemsByTheArrayRule ==
    \A t \in 1..15 :
        ArrayDecoded(t) =>
            /\ Len(ProbeValue(result).v) = desc.count
            /\ WholeValueRead
            /\ \A j \in 1..desc.count :
                  /\ ItemReadAs(ItemType(ArrayOf(KindOrder[t]), ProbeCodec), t, j)
                  /\ ItemReadAs(ItemType(KindOrder[t], "String"), t, j)

\* C22: a StringArray of MaxArrayLen items has been decoded in an element
\* body, its items as NUL-terminated runs, in the order of the input
C22_StringArrayInBody ==
    /\ ArrayDecoded(5) /\ desc.place = "body" /\ desc.count = MaxArrayLen
    /\ \A j \in 1..MaxArrayLen : ProbeValue(result).v[j] = <<96 + j>>
    /\ pos = Len(input)

\* the byte after the chunk that a read_until(d) from the cursor returns: after
\* the first d, or the end of the input when there is none
ChunkEnd(d) == IF FirstAt(pos, d) > 0 THEN FirstAt(pos, d) ELSE Len(input)

\* what one call of a byte-source operation, or of the header parser, does to
\* the cursor
CursorStep ==
    /\ pos' >= pos
    /\ last'.r.st = "ok" =>
          IF last'.op \in {"read_into", "read_bytes"}
          THEN pos' = pos + last'.arg /\ Len(last'.r.val) = last'.arg
          ELSE IF last'.op = "read_until"
          THEN pos' = pos + Len(last'.r.val) /\ pos' = ChunkEnd(last'.arg)
          ELSE pos' = ChunkEnd(0)

\* C23: across any sequence of byte-source operations the cursor never
\* decreases: a successful read of n fixed bytes or read_bytes(n) advances it
\* by exactly n, a successful read_until by exactly the length of the returned
\* chunk, and the trims of the header parser, made on the line it has read,
\* leave the cursor after that line.
C23_CursorOnlyAdvances == [][CursorStep]_vars

\* C23: the header parser has trimmed the four fields out of the line it read,
\* and the cursor is after the terminator of the line
C23_HeaderTrimmed ==
    /\ last # None /\ last.op = "FileHeader::read" /\ last.r.st = "ok"
    /\ last.r.val.encoding_name = BINARY /\ last.r.val.format_name = GENERIC
    /\ last.from = 0 /\ pos = Len(input) - 4 /\ input = HeaderInput

\* the decode of the value of an element-body attribute has failed
BodyValueFailed == desc.fam = "badvalue" /\ pc = "bodies" /\ Finished

\* the decode of the value of a prefix attribute has failed
PrefixValueFailed == Probed(255) /\ desc.place = "prefix"

\* the annotation the claim gives an attribute whose name is the index ref:
\* the table's entry when there is one, the bare index when there is none
AnnotationOf(ref) ==
    AttributeError(ref, IF ref >= 0 /\ ref < Len(strings) THEN strings[ref + 1] ELSE None)

\* C24: when decoding the value of an element-body attribute fails, the decode
\* call returns an error annotated with that attribute's name: resolved through
\* the string table when the name designates a table entry, otherwise the raw
\* StringRef (also when it is negative or beyond the table's end); for a prefix
\* attribute the annotation is the name string already read.
C24_FailureNamesTheAttribute ==
    /\ BodyValueFailed =>
          /\ outcome = "err"
          /\ error.ctx = <<AnnotationOf(desc.refs[1])>>
    /\ PrefixValueFailed =>
          /\ outcome = "err"
          /\ error.ctx = <<[tag |-> "Failed to read attribute",
                            name |-> desc.prefix[1].name]>>

\* C24: the value of a body attribute named by the index -1 failed to decode,
\* and the decode call ended in a panic on the string table lookup
C24_PanicOnUnresolvableName ==
    /\ BodyValueFailed /\ desc.refs[1] = -1
    /\ outcome = "panic" /\ error.data = "index out of bounds"
    /\ Attribute_read(mode, input, EndHeaders + 4).err.ctx = <<AttributeError(-1, None)>>

\* materializing the value held two element levels below the root has failed
DeepFailed ==
    /\ desc.fam = "deep" /\ pc = "done" /\ mat # None
    /\ mat.res.st = "err"

\* the wrapper next_value_seed puts around an error of the attribute `name`
Wrapper(name) == [tag |-> "Could not deserialize attribute", name |-> name]

\* C25: when materializing a value nested two or more element levels below the
\* root fails, the error from_file returns carries exactly one attribute-name
\* wrapper, that of the immediately failing attribute, and not one wrapper per
\* enclosing attribute on the path from the root.
C25_OneWrapper ==
    DeepFailed => mat.res.err.ctx = <<Wrapper(STR_C)>>

\* C25 (amended): the error carries one wrapper per attribute on the path from
\* the root to the failing value, the failing attribute's innermost and the
\* root's attribute outermost.
C25_OneWrapperPerLevel ==
    DeepFailed => mat.res.err.ctx = <<Wrapper(STR_C), Wrapper(STR_B), Wrapper(STR_A)>>

\* C25: a Binary held two element levels below the root was refused by the
\* generic shape, and the error names the three attributes of the path
C25_WrappedThreeTimes ==
    /\ DeepFailed /\ mat.shape = "Value" /\ mode = "slice"
    /\ mat.res.err.class = "invalid type" /\ Len(mat.res.err.ctx) = 3

\* the document has a negative count in the section named
NegativeCount(section) ==
    desc.fam = "count" /\ desc.place = section /\ desc.count < 0

\* C26: a negative count field (prefix count, string count, element count, a
\* body's attribute count, or any array count) is treated as zero: the section
\* or array decodes as empty, no further bytes are consumed for it, and no
\* error is raised.
C26_NegativeCountIsZero ==
    /\ (desc.fam \in {"negarray", "negbody"} \/ (desc.fam = "count" /\ desc.count < 0)) =>
          /\ outcome \in {"running", "ok"}
          /\ pc = "done" => pos = Len(input)
    /\ (NegativeCount("prefix") /\ pc = "strings") =>
          prefix = <<>> /\ pos = EndReserved + 4
    /\ (NegativeCount("strings") /\ pc = "headers") =>
          strings = <<>> /\ pos = EndPrefix + 4
    /\ (NegativeCount("elements") /\ pc = "bodies") =>
          headers = <<>> /\ pos = EndStrings + 4
    /\ (NegativeCount("elements") /\ pc = "return") =>
          bodies = <<>> /\ pos = EndStrings + 4
    /\ (desc.fam = "negbody" /\ pc = "return") =>
          /\ bodies[2].attributes = <<>>
          /\ pos = EndHeaders + Len(LayoutBody(desc.bods[1])) + 4
    /\ (desc.fam = "negarray" /\ pc = "done") =>
          /\ ProbeValue(result)
                = [variant |-> ArrayOf(KindOrder[desc.tag - 32]), v |-> <<>>]
          /\ AttributeValue_read(ProbeCodec, mode, ProbeBytes, 0)
                = Ok(ProbeValue(result), 5)

\* C26: a BinaryArray whose count is close to the least c_int has been
\* decoded in an element body as the empty array, and the decode has returned
C26_NegativeArrayDecoded ==
    /\ desc.fam = "negarray" /\ desc.tag = 38 /\ desc.place = "body"
    /\ desc.count = -2147483647
    /\ pc = "done" /\ outcome = "ok"
    /\ result.bodies[1].attributes[1].value = [variant |-> "BinaryArray", v |-> <<>>]

\* the position of the first attribute of attrs whose name is negative
FirstNegative(attrs) ==
    CHOOSE k \in 1..Len(attrs) :
        attrs[k].name < 0 /\ \A j \in 1..(k - 1) : attrs[j].name >= 0

\* the body of the root declares an attribute without a name, and the ones
\* before it have names of the string table
NamelessInRoot ==
    /\ desc.fam = "names" /\ pc = "done" /\ mat # None
    /\ \E k \in 1..3 : desc.refs[k] < 0
    /\ \A j \in 1..(FirstNegative(result.bodies[1].attributes) - 1) :
          desc.refs[j] < Len(result.strings)

\* the entries of the mapping the root was materialized as, under each shape
RootEntries ==
    IF mat.shape \in {"Value", "Map<Value>", "Map<Variant>", "Map<Option>"}
    THEN mat.res.val.v
    ELSE mat.res.val.v.v

\* the integer an entry's value was materialized from, under each shape
IntOf(value) == IF value.t = "i32" THEN value.v ELSE value.v.v

\* C27: while an element's body is iterated as a mapping, the first attribute
\* whose name StringRef is negative ends the iteration: the mapping reports
\* end-of-map there, and neither that attribute nor any attribute declared
\* after it in the body is delivered to the target.
C27_NamelessEndsTheMapping ==
    NamelessInRoot =>
        /\ mat.res.st = "ok"
        /\ Len(RootEntries) = FirstNegative(result.bodies[1].attributes) - 1
        /\ \A j \in 1..Len(RootEntries) :
              /\ RootEntries[j][1] = result.strings[desc.refs[j] + 1]
              /\ IntOf(RootEntries[j][2]) = result.bodies[1].attributes[j].value.v

\* C27: a body declared [a, nameless, out of the table] was materialized as
\* the mapping of a alone
C27_StoppedAtNameless ==
    /\ NamelessInRoot /\ desc.refs = <<0, -1, 4>> /\ mat.shape = "Map<Value>"
    /\ mat.res = MOk([t |-> "map", v |-> <<(<<STR_A, [t |-> "i32", v |-> 11]>>)>>])

\* the document holds a Binary, or a BinaryArray element, whose length prefix
\* is negative
NegativeLength == desc # None /\ desc.fam = "negbin"

\* the step of File::read that decodes the probed value
ProbeStep == IF desc.place = "prefix" THEN "prefix" ELSE "bodies"

\* C28: a Binary value, or a BinaryArray element, whose 4-byte signed length
\* prefix is negative never decodes to a value: the length, taken as an
\* unsigned size, exceeds any remaining input, and the decode call does not
\* return a Document.
C28_NegativeLengthNeverDecodes ==
    NegativeLength =>
        /\ result = None /\ outcome # "ok"
        /\ pc \in {"header", "assert", "padding", "prefix", "strings", "headers", "bodies"}
        /\ pc = "bodies" => desc.place = "body"
        /\ Finished => pc = ProbeStep
        /\ AttributeValue_read(ProbeCodec, mode, ProbeBytes, 0).st # "ok"
        /\ ThisEntryPoint.st # "ok"

\* C28: the decode of a BinaryArray whose element has the length -1 has ended
\* in the stream variant, on the allocation of the buffer, without a Document
C28_NegativeLengthRefused ==
    /\ NegativeLength /\ desc.tag = 38 /\ desc.place = "body" /\ desc.count = -1
    /\ mode = "stream" /\ Finished
    /\ outcome = "panic" /\ error.data = "capacity overflow"
    /\ result = None

\* a = Element(x) and b = ElementArray[y] of the root of a graph document
ElementAttribute == result.bodies[1].attributes[1].value

ElementItems == result.bodies[1].attributes[2].value

\* a graph document has been decoded whose Element attribute, or whose
\* ElementArray item, has a negative index
NegativeElement ==
    /\ desc.fam = "graph" /\ pc = "done" /\ outcome = "ok"
    /\ ElementAttribute.v < 0 \/ ElementItems.v[1] < 0

\* the deserializers of the negative indices of the document
NegativeDeserializers ==
    (IF ElementAttribute.v < 0 THEN {ValueDeserializer(ElementAttribute)} ELSE {})
        \cup (IF ElementItems.v[1] < 0 THEN {ElementWrapper(ElementItems.v[1])} ELSE {})

\* the Document without any string, header or body to look up
Emptied == [result EXCEPT !.strings = <<>>, !.headers = <<>>, !.bodies = <<>>]

\* what each target shape makes of a "none"
AcceptNone(s) ==
    CASE ShapeOf(s).k = "any" -> MOk([t |-> "null"])
      [] ShapeOf(s).k = "opt" -> MOk([t |-> "None"])
      [] OTHER -> Err("invalid type", "none")

\* C29: an Element attribute value or ElementArray item with a negative index
\* is never used to index element_headers or element_bodies: under a mapping,
\* generic or tagged-union request, as under an optional one, the target is
\* handed a "none" value, and no header, body or discriminant lookup takes
\* place.
C29_NegativeElementIsNone ==
    NegativeElement =>
        \A D \in NegativeDeserializers : \A s \in ShapeNames :
            /\ Visit(result, mode, D, MethodOf(s)) = EvNone
            /\ Deserialize(result, mode, D, s, {}) = AcceptNone(s)
            /\ Deserialize(Emptied, mode, D, s, {}) = AcceptNone(s)

\* C29: the root's a = Element(-1) was asked for as a tagged union; the
\* target was handed a "none", refused it, and from_file returned its error
C29_NoneUnderTaggedUnion ==
    /\ NegativeElement /\ desc.refs = <<-1, -1>>
    /\ mat # None /\ mat.shape = "Map<Variant>"
    /\ mat.res.st = "err" /\ mat.res.err.class = "invalid type"
    /\ mat.res.err.data = "none" /\ mat.res.err.ctx = <<Wrapper(STR_A)>>

\* the indices of the elements that element i refers to in its attributes
RefersTo(doc, i) ==
    LET attrs == doc.bodies[i + 1].attributes
        own(k) == IF attrs[k].value.variant = "Element" THEN {attrs[k].value.v}
                  ELSE IF attrs[k].value.variant = "ElementArray"
                  THEN {attrs[k].value.v[j] : j \in 1..Len(attrs[k].value.v)}
                  ELSE {}
    IN UNION {own(k) : k \in 1..Len(attrs)} \cap (0..(Len(doc.bodies) - 1))

\* the elements that can be reached from those of `seen`
RECURSIVE Reach(_, _)
Reach(doc, seen) ==
    LET more == seen \cup UNION {RefersTo(doc, i) : i \in seen}
    IN IF more = seen THEN seen ELSE Reach(doc, more)

\* the elements of the Document that element 0 leads to, itself included
Reachable(doc) == IF Len(doc.bodies) = 0 THEN {} ELSE Reach(doc, {0})

\* the Document with another header and another body for every element that
\* element 0 does not lead to
Scrambled(doc) ==
    [doc EXCEPT
       !.headers = [i \in 1..Len(doc.headers) |->
                       IF (i - 1) \in Reachable(doc) THEN doc.headers[i]
                       ELSE [type_ |-> 1, name |-> 2, guid |-> Guid(9)]],
       !.bodies = [i \in 1..Len(doc.bodies) |->
                      IF (i - 1) \in Reachable(doc) THEN doc.bodies[i]
                      ELSE [attributes |-> <<>>]]]

\* from_file has been called on the Document that was decoded
Materialized == pc = "done" /\ outcome = "ok" /\ mat # None

\* the result does not change with the elements element 0 does not lead to
ReachableOnly == from_file(Scrambled(result), mode, mat.shape) = mat.res

\* C30: from_file always materializes the element at index 0 as the root, for
\* every Document including one with zero elements, and its result depends
\* only on the string table and on the elements reachable from element 0
\* through the Element and ElementArray attributes; changing the header or the
\* body of an unreachable element does not change the result.
C30_RootAndReachableOnly ==
    Materialized =>
        /\ mat.res = Deserialize(result, mode, ElementDeserializer(0), mat.shape, {})
        /\ Len(result.bodies) = 0 => mat.res.st \in {"ok", "err"}
        /\ ReachableOnly

\* C30: from_file was called on a Document decoded from an element count of 0,
\* and ended in a panic on the lookup of element 0
C30_NoElementZero ==
    /\ Materialized /\ desc.fam = "count" /\ desc.place = "elements"
    /\ desc.n_elements = 0 /\ result.headers = <<>> /\ result.bodies = <<>>
    /\ mat.shape = "Value"
    /\ mat.res.st = "panic" /\ mat.res.err.data = "index out of bounds"

====
